---- MODULE Spec2Model ----
(***************************************************************************)
(* Branch / pull-request synchronisation engine of the translation         *)
(* back-end: GitHubService.mergeBranch, GitHubService.getChangedFiles and  *)
(* GitHubService.updateFileWithTranslations, together with the routes that *)
(* answer for them.  The remote repository host is part of the state: its  *)
(* open pull requests, the working branch, the file on the branch.  Every  *)
(* request the service awaits is one step, so that other requests and      *)
(* other clients interleave exactly where the code awaits.                 *)
(***************************************************************************)
EXTENDS Integers, Sequences, FiniteSets, TLC

\* ------------------------------------------------------------------ bounds
\* pull request numbers the remote host has handed out before the run
MaxPulls == 2
\* commits the working branch may be ahead of main
MaxAhead == 2
\* files a pull request may list
MaxFiles == 2
\* labels of a translation file, and language entries of a label
MaxLabels == 2
MaxLangs == 1
\* commits another client makes to the file while an update runs
MaxOtherWrites == 1
\* labels of a version that getConflicts compares, and entries of a label
MaxScanLabels == 1
MaxScanLangs == 1
\* elements of the reviewers manifest, lines of a checked file, review
\* comments of a pull request
MaxEntries == 2
MaxLines == 2
MaxComments == 1

\* ------------------------------------------------------- names and values
\* the working branch every request of the run names, and the stable branch
Branch == "feat"
Main == "main"

\* `mergeable` of a pull request: true, false, or null (not yet computed)
Mergeable == {"true", "false", "null"}

\* HTTP statuses an error of the remote client may carry; 0 stands for an
\* absent property (error.status undefined, error.response undefined)
ErrStatuses == {400, 404, 422}

\* what a rejected request of the remote client throws: the route handlers
\* read error.status and error.response.status, nothing else
RemoteErrors ==
    {[status |-> s, response |-> r, type |-> ""] :
        s \in ErrStatuses \cup {0}, r \in ErrStatuses \cup {0}}

NoError == [status |-> -1, response |-> 0, type |-> ""]
NoHttp == [status |-> 0, error |-> ""]

\* the permutations of a finite set, as sequences: the orders in which the
\* host may list the elements
Perms(S) ==
    {s \in [1..Cardinality(S) -> S] :
        \A i, j \in 1..Cardinality(S) : i # j => s[i] # s[j]}

\* one slot of the host's pull request store before the run: no pull
\* request with that number, one of another branch, or one of the working
\* branch in any draft / mergeable state
PullChoice ==
    {[present |-> FALSE, head |-> "other", draft |-> FALSE, mergeable |-> "true"],
     [present |-> TRUE, head |-> "other", draft |-> FALSE, mergeable |-> "true"]}
    \cup
    {[present |-> TRUE, head |-> Branch, draft |-> d, mergeable |-> m] :
        d \in BOOLEAN, m \in Mergeable}

PullStoresOf(choices) ==
    {{[number |-> n, head |-> f[n].head, base |-> Main,
       draft |-> f[n].draft, mergeable |-> f[n].mergeable] :
          n \in {k \in 1..MaxPulls : f[k].present}} :
        f \in [1..MaxPulls -> choices]}

PullStores == PullStoresOf(PullChoice)

\* getChangedFiles never reads `mergeable`: its runs start from the stores
\* whose pull requests all carry the same value of it
ChangedPullStores == PullStoresOf({c \in PullChoice : c.mergeable = "true"})

\* the callers of GET /changed
Callers == {"c1", "c2"}

\* filenames are numbered; a pull request lists each file once
FileLists == UNION {Perms(S) : S \in SUBSET (1..MaxFiles)}

\* the content of a file at a ref, as the contents endpoint returns it
Content(fname, ref) == [file |-> fname, ref |-> ref]
NoContent == [file |-> 0, ref |-> ""]
NoDiff == [filename |-> 0, before |-> NoContent, after |-> NoContent]

\* ------------------------------------------------ translation documents
\* label names, language codes, and the terms of: the file before the run,
\* the incoming translations, the other client's commits
Names == {"a", "b"}
Langs == {"fr", "nl"}
FileTerms == {"x"}
NewTerms == {"y"}
OtherTerms == {"z"}

SeqsUpTo(S, n) == UNION {[1..k -> S] : k \in 0..n}

\* a label: a name and a list of single-key maps {language: term}
LabelsOver(terms) ==
    [name : Names,
     translations : SeqsUpTo([lang : Langs, term : terms], MaxLangs)]

\* a parsed document: its `labels` list
DocsOver(terms) == SeqsUpTo(LabelsOver(terms), MaxLabels)

\* the text of a file: the document it parses to, and whether it carries
\* comments (which the parsed document does not keep)
TextsOver(terms) == [doc : DocsOver(terms), comments : BOOLEAN]

\* the translations of a request: label name -> (language -> term)
LangMaps == UNION {[L -> NewTerms] : L \in SUBSET Langs}
TranslationMaps == UNION {[D -> LangMaps] : D \in SUBSET Names}

VARIABLES
    \* the remote repository host
    pulls,          \* open pull requests (records)
    mergedPulls,    \* numbers of the pull requests merged during the run
    branchExists,   \* the working branch ref exists
    \* one PUT /merge request
    mPc,            \* position in mergeBranch
    mList,          \* pullsResponse.data
    mDetails,       \* pullDetailsResponse.data
    mMerged,        \* mergeResponse.data.merged: "none", "true", "false"
    mCalls,         \* remote calls issued so far, with their outcome
    mErr,           \* the error mergeBranch threw
    mHttp,          \* what the route answered
    \* the remote repository host, as getChangedFiles reads it
    aheadBy,        \* commits of the working branch ahead of main
    prFiles,        \* filenames of the pull request file list, in order
    \* the GET /changed requests, one per caller
    gPc,            \* position in getChangedFiles
    gList,          \* pullsResponse.data
    gAhead,         \* compareResponse.data.ahead_by, -1 before the compare
    gPull,          \* pullNumber
    gFiles,         \* files
    gFetch,         \* per file, the content requests made for it so far
    gOut,           \* per file, the element of diffsData
    gCalls,         \* remote calls issued so far, with their outcome
    gRes,           \* what getChangedFiles returned or threw, and the answer
    \* the file on the working branch, and the clients that write it
    file,           \* its text on the host
    otherWrites,    \* commits of another client to the file during the run
    otherInWindow,  \* one of them came after the first read of the update
    otherLast,      \* the text the other client committed last
    \* one PUT /update request
    uPc,            \* position in updateFileWithTranslations
    uT,             \* translations
    uRead,          \* the text of `response`, the first read
    uContent,       \* updatedContent
    uSha,           \* responseSha.data.sha
    uCalls,         \* remote calls issued so far, with their outcome
    uStatus,        \* status of the route's answer
    \* one comparison of two versions of a file, as getConflicts makes it
    scanSync,       \* parsedSync.labels
    scanBranch,     \* parsedBranch.labels
    scanOut,        \* conflicts, once the comparison is made
    \* the remote repository host, as getConflicts and getDetailedDiff read it
    syncFiles,      \* filenames of the compare branch...main, in order
    blobs,          \* per file the run reads, its text on main and on the branch
    \* one GET /conflicts request
    cPc,            \* position in getConflicts
    cFiles,         \* files
    cSync,          \* compareResponseSync.data.files
    cCommon,        \* commonFiles
    cFetch,         \* per common file, how far its callback is
    cOut,           \* per common file, what its callback returned
    cOrder,         \* the common files (by position) in the order they completed
    cReads,         \* the content requests issued: <<filename, ref>>
    cRes,           \* what getConflicts returned or threw, and the answer
    \* one GET /diff request (getDetailedDiff)
    dPc,            \* position in getDetailedDiff
    dFiles,         \* files
    dFetch,         \* per file, how far its callback is
    dOut,           \* per file, what its callback returned
    dOrder,         \* the files (by position) in the order they completed
    dRes,           \* what getDetailedDiff returned or threw, and the answer
    \* the remote repository host, as the approval scanner reads it
    manifest,       \* reviewers.json on main
    prComments,     \* review comments of the pull request, in order
    fileLines,      \* the lines of the checked file on the branch
    \* one GET /pr/:prNumber/file/:filePath/approved request
    aPc,            \* position in checkFileApproval
    aLines,         \* linesWithName
    aComments,      \* comments
    aRes,           \* what checkFileApproval returned or threw, and the answer
    \* one GET /reviewers request
    rPc,            \* position in getReviewers
    rRes,           \* what getReviewers returned or threw, and the answer
    \* one getDiff call
    xPc,            \* position in getDiff
    \* one request on its way through the middleware of its route
    owner,          \* process.env.GITHUB_OWNER is set
    vRoute,         \* the route
    vReq,           \* what the request carries
    vAt,            \* the middleware it is at, by position in the chain
    vRemote,        \* requests sent to the repository host for it so far
    vStatus,        \* status of the answer, 0 before
    \* one PUT /update request served by the current service
    uHost           \* status of the host's answer that made it fail, 0 if none

remoteVars == <<pulls, mergedPulls, branchExists>>
mergeVars == <<mPc, mList, mDetails, mMerged, mCalls, mErr, mHttp>>
changedVars ==
    <<aheadBy, prFiles, gPc, gList, gAhead, gPull, gFiles, gFetch, gOut,
      gCalls, gRes>>
updateVars ==
    <<file, otherWrites, otherInWindow, otherLast, uPc, uT, uRead, uContent,
      uSha, uCalls, uStatus>>
scanVars == <<scanSync, scanBranch, scanOut>>
conflictVars ==
    <<syncFiles, blobs, cPc, cFiles, cSync, cCommon, cFetch, cOut, cOrder,
      cReads, cRes>>
diffVars == <<dPc, dFiles, dFetch, dOut, dOrder, dRes>>
batchVars == <<scanVars, conflictVars, diffVars>>
reviewVars ==
    <<manifest, prComments, fileLines, aPc, aLines, aComments, aRes, rPc, rRes,
      xPc>>
validationVars == <<owner, vRoute, vReq, vAt, vRemote, vStatus>>
currentVars == <<uHost>>
extraVars == <<reviewVars, validationVars, currentVars>>
vars ==
    <<remoteVars, mergeVars, changedVars, updateVars, batchVars, extraVars>>

NoDetails == [number |-> 0, head |-> "", base |-> "", draft |-> FALSE, mergeable |-> "null"]

Call(op, ok) == [op |-> op, ok |-> ok]

\* ------------------------------------------------- PUT /merge, its answer
\* the catch block of the route: status and `error` field of the answer
MergeRouteError(error) ==
    IF error.status = 404
    THEN [status |-> 404, error |-> "Not Found"]
    ELSE IF error.status = 400
    THEN [status |-> 400,
          error |-> IF error.type # "" THEN error.type ELSE "Merge Failed"]
    ELSE IF error.response # 0
    THEN [status |-> error.response, error |-> "GitHub API Error"]
    ELSE [status |-> 500, error |-> "Internal Server Error"]

\* mergeBranch rejects with `error`; the route answers for it
MergeThrow(error, calls) ==
    /\ mPc' = "failed"
    /\ mErr' = error
    /\ mHttp' = MergeRouteError(error)
    /\ mCalls' = calls

\* ------------------------------------------------------------ mergeBranch
\* a list request that drops the head filter
FilterPulls_AnyHead(store, head, base) ==
    {p \in store : p.base = base}

\* the open pull requests of head = branch, base = main
FilterPulls(store, head, base) ==
    {p \in store : p.head = head /\ p.base = base}

\* GET /repos/{owner}/{repo}/pulls and the empty-list check
MergeListPulls ==
    /\ mPc = "list"
    /\ \/ \E e \in RemoteErrors :
            /\ MergeThrow(e, Append(mCalls, Call("listPulls", FALSE)))
            /\ UNCHANGED <<mList, mDetails>>
       \/ \E resp \in Perms(FilterPulls(pulls, Branch, Main)) :
            /\ mList' = resp
            /\ IF Len(resp) = 0
               THEN /\ MergeThrow([status |-> 404, response |-> 0, type |-> ""],
                                  Append(mCalls, Call("listPulls", TRUE)))
                    /\ UNCHANGED mDetails
               ELSE /\ mPc' = "details"
                    /\ mCalls' = Append(mCalls, Call("listPulls", TRUE))
                    /\ UNCHANGED <<mDetails, mErr, mHttp>>
    /\ UNCHANGED <<remoteVars, mMerged>>
    /\ UNCHANGED <<changedVars, updateVars, batchVars, extraVars>>

\* mergeBranch without the draft check: straight to the merge call
MergeAfterDetails_NoReady(d) ==
    IF d.mergeable = "true" THEN "merge" ELSE "notMergeable"

\* mergeBranch that takes a mergeable flag not yet computed for mergeable
MergeAfterDetails_NullOk(d) ==
    IF d.mergeable # "false"
    THEN IF d.draft THEN "markReady" ELSE "merge"
    ELSE "notMergeable"

\* mergeBranch that marks every mergeable pull request ready
MergeAfterDetails_AlwaysReady(d) ==
    IF d.mergeable = "true" THEN "markReady" ELSE "notMergeable"

\* what mergeBranch does next once the details are known
MergeAfterDetails(d) ==
    IF d.mergeable = "true"
    THEN IF d.draft THEN "markReady" ELSE "merge"
    ELSE "notMergeable"

\* GET /repos/{owner}/{repo}/pulls/{pull_number} of the first listed pull
\* request, then the mergeable and draft checks
MergeGetDetails ==
    /\ mPc = "details"
    /\ \/ \E e \in RemoteErrors :
            /\ MergeThrow(e, Append(mCalls, Call("getPull", FALSE)))
            /\ UNCHANGED mDetails
       \/ \E d \in {p \in pulls : p.number = mList[1].number} :
            /\ mDetails' = d
            /\ IF MergeAfterDetails(d) = "notMergeable"
               THEN MergeThrow([status |-> 400, response |-> 0,
                                type |-> "Not Mergeable"],
                               Append(mCalls, Call("getPull", TRUE)))
               ELSE /\ mPc' = MergeAfterDetails(d)
                    /\ mCalls' = Append(mCalls, Call("getPull", TRUE))
                    /\ UNCHANGED <<mErr, mHttp>>
    /\ UNCHANGED <<remoteVars, mList, mMerged>>
    /\ UNCHANGED <<changedVars, updateVars, batchVars, extraVars>>

\* a mark-ready request that is answered but leaves the draft flag as it is
MergeMarkReady_NoEffect ==
    /\ mPc = "markReady"
    /\ mPc' = "merge"
    /\ mCalls' = Append(mCalls, Call("markReady", TRUE))
    /\ UNCHANGED <<pulls, mErr, mHttp>>
    /\ UNCHANGED <<mergedPulls, branchExists, mList, mDetails, mMerged>>
    /\ UNCHANGED <<changedVars, updateVars, batchVars, extraVars>>

\* the markPullRequestReadyForReview mutation
MergeMarkReady ==
    /\ mPc = "markReady"
    /\ \/ \E e \in RemoteErrors :
            /\ MergeThrow(e, Append(mCalls, Call("markReady", FALSE)))
            /\ UNCHANGED pulls
       \/ /\ pulls' = {IF p.number = mDetails.number
                       THEN [p EXCEPT !.draft = FALSE] ELSE p : p \in pulls}
          /\ mPc' = "merge"
          /\ mCalls' = Append(mCalls, Call("markReady", TRUE))
          /\ UNCHANGED <<mErr, mHttp>>
    /\ UNCHANGED <<mergedPulls, branchExists, mList, mDetails, mMerged>>
    /\ UNCHANGED <<changedVars, updateVars, batchVars, extraVars>>

\* mergeBranch that deletes the branch whatever the merge response says
MergeAfterMerge_Always(merged) == "delete"

\* where mergeBranch goes with the merge response
MergeAfterMerge(merged) == IF merged THEN "delete" ELSE "mergeFailed"

\* PUT /repos/{owner}/{repo}/pulls/{pull_number}/merge and the check of
\* `merged` in the response; the host merges only a pull request that is
\* open, not a draft and mergeable
MergeMerge ==
    /\ mPc = "merge"
    /\ \/ \E e \in RemoteErrors :
            /\ MergeThrow(e, Append(mCalls, Call("merge", FALSE)))
            /\ UNCHANGED <<pulls, mergedPulls, mMerged>>
       \/ \E p \in {q \in pulls : q.number = mDetails.number} :
            /\ ~p.draft
            /\ p.mergeable = "true"
            /\ pulls' = pulls \ {p}
            /\ mergedPulls' = mergedPulls \cup {p.number}
            /\ mMerged' = "true"
            /\ mPc' = MergeAfterMerge(TRUE)
            /\ mCalls' = Append(mCalls, Call("merge", TRUE))
            /\ UNCHANGED <<mErr, mHttp>>
       \/ /\ IF MergeAfterMerge(FALSE) = "mergeFailed"
             THEN MergeThrow([status |-> 400, response |-> 0,
                              type |-> "Merge Failed"],
                             Append(mCalls, Call("merge", TRUE)))
             ELSE /\ mPc' = MergeAfterMerge(FALSE)
                  /\ mCalls' = Append(mCalls, Call("merge", TRUE))
                  /\ UNCHANGED <<mErr, mHttp>>
          /\ mMerged' = "false"
          /\ UNCHANGED <<pulls, mergedPulls>>
    /\ UNCHANGED <<branchExists, mList, mDetails>>
    /\ UNCHANGED <<changedVars, updateVars, batchVars, extraVars>>

\* a best-effort deletion: the rejection is swallowed, the merge reported
MergeDeleteFailed_Swallow(e) ==
    /\ mPc' = "done"
    /\ mHttp' = [status |-> 200, error |-> ""]
    /\ mCalls' = Append(mCalls, Call("deleteBranch", FALSE))
    /\ UNCHANGED mErr

\* what a rejected branch deletion does to mergeBranch: the await is not
\* guarded, the rejection is the rejection of mergeBranch
MergeDeleteFailed(e) ==
    MergeThrow(e, Append(mCalls, Call("deleteBranch", FALSE)))

\* DELETE /repos/{owner}/{repo}/git/refs/heads/{branch}, then the result
MergeDeleteBranch ==
    /\ mPc = "delete"
    /\ \/ \E e \in RemoteErrors :
            /\ MergeDeleteFailed(e)
            /\ UNCHANGED branchExists
       \/ /\ branchExists
          /\ branchExists' = FALSE
          /\ mPc' = "done"
          /\ mHttp' = [status |-> 200, error |-> ""]
          /\ mCalls' = Append(mCalls, Call("deleteBranch", TRUE))
          /\ UNCHANGED mErr
    /\ UNCHANGED <<pulls, mergedPulls, mList, mDetails, mMerged>>
    /\ UNCHANGED <<changedVars, updateVars, batchVars, extraVars>>

\* -------------------------------------------------------- getChangedFiles
GCall(op, ok, params) ==
    [op |-> op, ok |-> ok, head |-> params.head, base |-> params.base,
     draft |-> params.draft, num |-> params.num]
NoParams == [head |-> "", base |-> "", draft |-> FALSE, num |-> 0]
NoRes ==
    [kind |-> "none", pullNumber |-> 0, err |-> NoError, file |-> 0,
     status |-> 0]

\* the catch block of GET /changed
ChangedRouteStatus(error) ==
    IF error.type = "No pull request found"
    THEN 404
    ELSE IF error.response # 0 THEN error.response ELSE 500

\* getChangedFiles of caller c rejects with `error`; the route answers
ChangedThrow(c, error, fname, call) ==
    /\ gPc' = [gPc EXCEPT ![c] = "failed"]
    /\ gRes' = [gRes EXCEPT ![c] =
                  [kind |-> "error", pullNumber |-> 0, err |-> error,
                   file |-> fname, status |-> ChangedRouteStatus(error)]]
    /\ gCalls' = [gCalls EXCEPT ![c] = Append(@, call)]

ChangedLog(c, call) == gCalls' = [gCalls EXCEPT ![c] = Append(@, call)]

\* the existing pull request getChangedFiles takes: the last listed
ChangedExisting_Last(resp) == resp[Len(resp)].number

\* the existing pull request getChangedFiles takes: pullsResponse.data[0]
ChangedExisting(resp) == resp[1].number

\* GET /repos/{owner}/{repo}/pulls, then the branch on the list's length
ChangedListPulls(c) ==
    /\ gPc[c] = "list"
    /\ \/ \E e \in RemoteErrors :
            /\ ChangedThrow(c, e, 0, GCall("listPulls", FALSE, NoParams))
            /\ UNCHANGED <<gList, gPull>>
       \/ \E resp \in Perms(FilterPulls(pulls, Branch, Main)) :
            /\ gList' = [gList EXCEPT ![c] = resp]
            /\ ChangedLog(c, GCall("listPulls", TRUE, NoParams))
            /\ IF Len(resp) = 0
               THEN /\ gPc' = [gPc EXCEPT ![c] = "compare"]
                    /\ UNCHANGED gPull
               ELSE /\ gPc' = [gPc EXCEPT ![c] = "files"]
                    /\ gPull' = [gPull EXCEPT ![c] = ChangedExisting(resp)]
            /\ UNCHANGED gRes
    /\ UNCHANGED <<remoteVars, mergeVars, updateVars, batchVars, extraVars,
                   aheadBy, prFiles, gAhead, gFiles,
                   gFetch, gOut>>

\* the boundary moved: one commit ahead still counts as no changes
ChangedAfterCompare_OffByOne(ahead) ==
    IF ahead <= 1 THEN "noChanges" ELSE "create"

\* compareResponse.data.ahead_by === 0 is the "no changes" boundary
ChangedAfterCompare(ahead) ==
    IF ahead = 0 THEN "noChanges" ELSE "create"

\* GET /repos/{owner}/{repo}/compare/main...branch, then the ahead_by check
ChangedCompare(c) ==
    /\ gPc[c] = "compare"
    /\ \/ /\ \E e \in RemoteErrors :
               ChangedThrow(c, e, 0, GCall("compare", FALSE, NoParams))
          /\ UNCHANGED gAhead
       \/ /\ gAhead' = [gAhead EXCEPT ![c] = aheadBy]
          /\ ChangedLog(c, GCall("compare", TRUE, NoParams))
          /\ IF ChangedAfterCompare(aheadBy) = "noChanges"
             THEN /\ gPc' = [gPc EXCEPT ![c] = "done"]
                  /\ gRes' = [gRes EXCEPT ![c] =
                                [kind |-> "compare", pullNumber |-> 0,
                                 err |-> NoError, file |-> 0, status |-> 200]]
             ELSE /\ gPc' = [gPc EXCEPT ![c] = "create"]
                  /\ UNCHANGED gRes
    /\ UNCHANGED <<remoteVars, mergeVars, updateVars, batchVars, extraVars,
                   aheadBy, prFiles, gList, gPull,
                   gFiles, gFetch, gOut>>

\* a creation request without the draft flag
ChangedCreateParams_NotDraft ==
    [head |-> Branch, base |-> Main, draft |-> FALSE, num |-> 0]

\* the parameters of POST /repos/{owner}/{repo}/pulls
ChangedCreateParams ==
    [head |-> Branch, base |-> Main, draft |-> TRUE, num |-> 0]

\* the number the host gives the next pull request
NextNumber == MaxPulls + 1 + Cardinality({p \in pulls : p.number > MaxPulls})

\* POST /repos/{owner}/{repo}/pulls; the host refuses a second open pull
\* request of the same head and base, and one of a branch with no commits
ChangedCreate(c) ==
    /\ gPc[c] = "create"
    /\ \/ /\ \E e \in RemoteErrors :
               ChangedThrow(c, e, 0, GCall("createPull", FALSE, ChangedCreateParams))
          /\ UNCHANGED <<pulls, gPull>>
       \/ /\ FilterPulls(pulls, ChangedCreateParams.head,
                         ChangedCreateParams.base) = {}
          /\ aheadBy > 0
          /\ pulls' = pulls \cup
                {[number |-> NextNumber, head |-> ChangedCreateParams.head,
                  base |-> ChangedCreateParams.base,
                  draft |-> ChangedCreateParams.draft, mergeable |-> "null"]}
          /\ gPull' = [gPull EXCEPT ![c] = NextNumber]
          /\ gPc' = [gPc EXCEPT ![c] = "files"]
          /\ ChangedLog(c, GCall("createPull", TRUE,
                                 [ChangedCreateParams EXCEPT !.num = NextNumber]))
          /\ UNCHANGED gRes
    /\ UNCHANGED <<mergedPulls, branchExists, mergeVars, updateVars, batchVars, extraVars,
                   aheadBy, prFiles,
                   gList, gAhead, gFiles, gFetch, gOut>>

\* GET /repos/{owner}/{repo}/pulls/{pull_number}/files; Promise.all over an
\* empty list resolves at once
ChangedListFiles(c) ==
    /\ gPc[c] = "files"
    /\ \/ /\ \E e \in RemoteErrors :
               ChangedThrow(c, e, 0,
                   GCall("listFiles", FALSE, [NoParams EXCEPT !.num = gPull[c]]))
          /\ UNCHANGED <<gFiles, gFetch, gOut>>
       \/ /\ gFiles' = [gFiles EXCEPT ![c] = prFiles]
          /\ gFetch' = [gFetch EXCEPT ![c] = [i \in 1..Len(prFiles) |-> "todo"]]
          /\ gOut' = [gOut EXCEPT ![c] = [i \in 1..Len(prFiles) |-> NoDiff]]
          /\ gPc' = [gPc EXCEPT ![c] =
                        IF Len(prFiles) = 0 THEN "comments" ELSE "fetch"]
          /\ ChangedLog(c, GCall("listFiles", TRUE,
                                 [NoParams EXCEPT !.num = gPull[c]]))
          /\ UNCHANGED gRes
    /\ UNCHANGED <<remoteVars, mergeVars, updateVars, batchVars, extraVars,
                   aheadBy, prFiles, gList, gAhead,
                   gPull>>

\* the error the per-file catch block throws in place of the request's
FileError == [status |-> 0, response |-> 0, type |-> "Failed to retrieve content"]

\* a per-file catch block whose error does not name the file
ChangedFileThrow_Unnamed(c, fname) ==
    /\ gPc' = [gPc EXCEPT ![c] = "failed"]
    /\ gRes' = [gRes EXCEPT ![c] =
                  [kind |-> "error", pullNumber |-> 0, err |-> FileError,
                   file |-> 0, status |-> ChangedRouteStatus(FileError)]]
    /\ UNCHANGED gCalls

\* the per-file catch block: getChangedFiles rejects, naming the file
ChangedFileThrow(c, fname) ==
    /\ gPc' = [gPc EXCEPT ![c] = "failed"]
    /\ gRes' = [gRes EXCEPT ![c] =
                  [kind |-> "error", pullNumber |-> 0, err |-> FileError,
                   file |-> fname, status |-> ChangedRouteStatus(FileError)]]
    /\ UNCHANGED gCalls

\* the request for the content of file i on main
ChangedFetchBefore(c, i) ==
    /\ gPc[c] = "fetch"
    /\ gFetch[c][i] = "todo"
    /\ \/ /\ ChangedFileThrow(c, gFiles[c][i])
          /\ gFetch' = [gFetch EXCEPT ![c][i] = "failed"]
          /\ UNCHANGED gOut
       \/ /\ gFetch' = [gFetch EXCEPT ![c][i] = "before"]
          /\ gOut' = [gOut EXCEPT ![c][i].before = Content(gFiles[c][i], Main)]
          /\ UNCHANGED <<gPc, gRes, gCalls>>
    /\ UNCHANGED <<remoteVars, mergeVars, updateVars, batchVars, extraVars,
                   aheadBy, prFiles, gList, gAhead,
                   gPull, gFiles>>

\* the request for the content of file i on the branch; with the last file
\* done Promise.all resolves, in the order of `files`
ChangedFetchAfter(c, i) ==
    /\ gPc[c] = "fetch"
    /\ gFetch[c][i] = "before"
    /\ \/ /\ ChangedFileThrow(c, gFiles[c][i])
          /\ gFetch' = [gFetch EXCEPT ![c][i] = "failed"]
          /\ UNCHANGED gOut
       \/ /\ gFetch' = [gFetch EXCEPT ![c][i] = "done"]
          /\ gOut' = [gOut EXCEPT ![c][i] =
                        [filename |-> gFiles[c][i], before |-> @.before,
                         after |-> Content(gFiles[c][i], Branch)]]
          /\ gPc' = [gPc EXCEPT ![c] =
                        IF \A j \in 1..Len(gFiles[c]) : j = i \/ gFetch[c][j] = "done"
                        THEN "comments" ELSE "fetch"]
          /\ UNCHANGED <<gRes, gCalls>>
    /\ UNCHANGED <<remoteVars, mergeVars, updateVars, batchVars, extraVars,
                   aheadBy, prFiles, gList, gAhead,
                   gPull, gFiles>>

\* GET /repos/{owner}/{repo}/pulls/{pull_number}/comments, then the return
ChangedComments(c) ==
    /\ gPc[c] = "comments"
    /\ \/ \E e \in RemoteErrors :
            ChangedThrow(c, e, 0,
                GCall("listComments", FALSE, [NoParams EXCEPT !.num = gPull[c]]))
       \/ /\ gPc' = [gPc EXCEPT ![c] = "done"]
          /\ gRes' = [gRes EXCEPT ![c] =
                        [kind |-> "data", pullNumber |-> gPull[c],
                         err |-> NoError, file |-> 0, status |-> 200]]
          /\ ChangedLog(c, GCall("listComments", TRUE,
                                 [NoParams EXCEPT !.num = gPull[c]]))
    /\ UNCHANGED <<remoteVars, mergeVars, updateVars, batchVars, extraVars,
                   aheadBy, prFiles, gList, gAhead,
                   gPull, gFiles, gFetch, gOut>>

\* ---------------------------------------------- updateFileWithTranslations
\* parse(Buffer.from(content, "base64").toString("utf-8")): the document,
\* without the comments of the text
Parse(text) == text.doc

\* stringify(content, {...}): the text of the document, which has no comments
Stringify(doc) == [doc |-> doc, comments |-> FALSE]

\* the blob sha of a text: equal for equal texts only
Sha(text) == [blob |-> text]

\* label.translations.find((t) => t.hasOwnProperty(language)): the index of
\* the first entry of that language, 0 when there is none
FindLang(translations, language) ==
    IF \E i \in 1..Len(translations) : translations[i].lang = language
    THEN CHOOSE i \in 1..Len(translations) :
            /\ translations[i].lang = language
            /\ \A j \in 1..(i - 1) : translations[j].lang # language
    ELSE 0

\* an inner forEach that adds an entry for a language the label lacks
ApplyToLabel_Insert(label, entry) ==
    LET missing == {l \in DOMAIN entry :
                       \A i \in 1..Len(label.translations) :
                          label.translations[i].lang # l}
        order == CHOOSE s \in Perms(missing) : TRUE
    IN  [label EXCEPT !.translations =
            [i \in 1..Len(label.translations) |->
                LET t == label.translations[i]
                IN  IF t.lang \in DOMAIN entry
                       /\ FindLang(label.translations, t.lang) = i
                    THEN [t EXCEPT !.term = entry[t.lang]]
                    ELSE t]
            \o [i \in 1..Len(order) |->
                   [lang |-> order[i], term |-> entry[order[i]]]]]

\* the inner forEach: every (language, term) of the label's entry of the
\* map overwrites the first entry of that language, if there is one
ApplyToLabel(label, entry) ==
    [label EXCEPT !.translations =
        [i \in 1..Len(label.translations) |->
            LET t == label.translations[i]
            IN  IF t.lang \in DOMAIN entry /\ FindLang(label.translations, t.lang) = i
                THEN [t EXCEPT !.term = entry[t.lang]]
                ELSE t]]

\* a merge step that keeps the labels the map names and drops the others
ApplyTranslations_DropUnnamed(doc, value) ==
    SelectSeq([k \in 1..Len(doc) |->
                  IF doc[k].name \in DOMAIN value
                  THEN ApplyToLabel(doc[k], value[doc[k].name])
                  ELSE doc[k]],
              LAMBDA label : label.name \in DOMAIN value)

\* a merge step that applies an entry of the map to every label, whatever
\* its name
ApplyTranslations_EveryLabel(doc, value) ==
    [k \in 1..Len(doc) |->
        IF DOMAIN value # {}
        THEN ApplyToLabel(doc[k], value[CHOOSE n \in DOMAIN value : TRUE])
        ELSE doc[k]]

\* content.labels.forEach(...): the merge step
ApplyTranslations(doc, value) ==
    [k \in 1..Len(doc) |->
        IF doc[k].name \in DOMAIN value
        THEN ApplyToLabel(doc[k], value[doc[k].name])
        ELSE doc[k]]

\* what a rejected request throws here: not found, conflict, or no response
UpdateErrors ==
    {[status |-> 404, response |-> 404, type |-> ""],
     [status |-> 409, response |-> 409, type |-> ""],
     [status |-> 500, response |-> 0, type |-> ""]}

\* the catch block of PUT /update
UpdateRouteStatus(error) ==
    IF error.response # 0 THEN error.response ELSE 500

UpdateThrow(error, call) ==
    /\ uPc' = "failed"
    /\ uStatus' = UpdateRouteStatus(error)
    /\ uCalls' = Append(uCalls, call)

\* the first GET of the contents, parse, the merge step and stringify; the
\* module scope of this copy of the service imports parse alone, so the
\* stringify call may also throw a ReferenceError
UpdateGetContent ==
    /\ uPc = "get"
    /\ \/ /\ \E e \in UpdateErrors : UpdateThrow(e, Call("getContent", FALSE))
          /\ UNCHANGED <<uRead, uContent>>
       \/ /\ uRead' = file
          /\ UpdateThrow([status |-> 0, response |-> 0, type |-> "ReferenceError"],
                         Call("getContent", TRUE))
          /\ UNCHANGED uContent
       \/ /\ uRead' = file
          /\ uContent' = Stringify(ApplyTranslations(Parse(file), uT))
          /\ uPc' = "sha"
          /\ uCalls' = Append(uCalls, Call("getContent", TRUE))
          /\ UNCHANGED uStatus
    /\ UNCHANGED <<remoteVars, mergeVars, changedVars, batchVars, extraVars, file, otherWrites,
                   otherInWindow, otherLast, uT, uSha>>

\* parse, the merge step and stringify alone, on the text of the file
UpdateMergeStep ==
    /\ uPc = "get"
    /\ uRead' = file
    /\ uContent' = Stringify(ApplyTranslations(Parse(file), uT))
    /\ uPc' = "merged"
    /\ UNCHANGED <<remoteVars, mergeVars, changedVars, batchVars, extraVars, file,
                   otherWrites, otherInWindow, otherLast, uT, uSha, uCalls,
                   uStatus>>

\* the second GET of the contents, for the sha
UpdateGetSha ==
    /\ uPc = "sha"
    /\ \/ /\ \E e \in UpdateErrors : UpdateThrow(e, Call("getSha", FALSE))
          /\ UNCHANGED uSha
       \/ /\ uSha' = Sha(file)
          /\ uPc' = "put"
          /\ uCalls' = Append(uCalls, Call("getSha", TRUE))
          /\ UNCHANGED uStatus
    /\ UNCHANGED <<remoteVars, mergeVars, changedVars, batchVars, extraVars, file, otherWrites,
                   otherInWindow, otherLast, uT, uRead, uContent>>

\* PUT of the contents with that sha; the host commits when the sha is the
\* one of the file as it is now and answers 409 otherwise
UpdatePut ==
    /\ uPc = "put"
    /\ \/ /\ \E e \in UpdateErrors : UpdateThrow(e, Call("putContent", FALSE))
          /\ UNCHANGED file
       \/ /\ uSha # Sha(file)
          /\ UpdateThrow([status |-> 409, response |-> 409, type |-> ""],
                         Call("putContent", FALSE))
          /\ UNCHANGED file
       \/ /\ uSha = Sha(file)
          /\ file' = uContent
          /\ uPc' = "done"
          /\ uStatus' = 200
          /\ uCalls' = Append(uCalls, Call("putContent", TRUE))
    /\ UNCHANGED <<remoteVars, mergeVars, changedVars, batchVars, extraVars, otherWrites,
                   otherInWindow, otherLast, uT, uRead, uContent, uSha>>

\* the slots (label, entry) of a document
Slots(doc) ==
    UNION {{<<k, i>> : i \in 1..Len(doc[k].translations)} : k \in 1..Len(doc)}

\* another client commits a change of one term of the file while the
\* request runs
OtherWrite ==
    /\ uPc \in {"get", "sha", "put"}
    /\ otherWrites < MaxOtherWrites
    /\ \E slot \in Slots(file.doc) :
         \E term \in OtherTerms \ {file.doc[slot[1]].translations[slot[2]].term} :
            /\ file' = [file EXCEPT
                          !.doc[slot[1]].translations[slot[2]].term = term]
            /\ otherLast' = file'
    /\ otherWrites' = otherWrites + 1
    /\ otherInWindow' = (otherInWindow \/ uPc \in {"sha", "put"})
    /\ UNCHANGED <<remoteVars, mergeVars, changedVars, batchVars, extraVars, uPc, uT, uRead,
                   uContent, uSha, uCalls, uStatus>>

\* ------------------------------------------- getConflicts, one file
\* the two versions of a file that getConflicts compares: the labels of the
\* version on main (the reference) and of the version on the branch
\* the reference version holds labels of one name, with a term or none; the
\* branch version may hold a label of another name too, and changed terms
ScanSyncNames == {"a"}
ScanSyncTerms == {"", "p"}
ScanBranchTerms == {"p", "q"}
ScanLabels(names, terms) ==
    [name : names,
     translations : SeqsUpTo([lang : Langs, term : terms], MaxScanLangs)]
ScanDocs(names, terms) == SeqsUpTo(ScanLabels(names, terms), MaxScanLabels)

\* seqs[1] \o seqs[2] \o ...: what the nested forEach loops push, in order
RECURSIVE Concat(_)
Concat(seqs) ==
    IF seqs = <<>> THEN <<>> ELSE Head(seqs) \o Concat(Tail(seqs))

\* labelsBranch.find((label) => label.name === syncLabel.name): the index
\* of the first label of that name, 0 when there is none
FindLabel(labels, name) ==
    IF \E k \in 1..Len(labels) : labels[k].name = name
    THEN CHOOSE k \in 1..Len(labels) :
            /\ labels[k].name = name
            /\ \A j \in 1..(k - 1) : labels[j].name # name
    ELSE 0

\* branchLabel.translations.find((t) => Object.keys(t).some(...)): the index
\* of the first entry that has a key of syncTranslation, 0 when none has
FindTranslation(translations, syncTranslation) ==
    IF \E i \in 1..Len(translations) :
          translations[i].lang = syncTranslation.lang
    THEN CHOOSE i \in 1..Len(translations) :
            /\ translations[i].lang = syncTranslation.lang
            /\ \A j \in 1..(i - 1) :
                  translations[j].lang # syncTranslation.lang
    ELSE 0

\* a test that flags every difference, an empty reference value included
ConflictTest_AnyDifference(syncValue, branchValue) ==
    syncValue # branchValue

\* syncValue !== branchTranslation[lang] && syncValue !== ""
ConflictTest(syncValue, branchValue) ==
    syncValue # branchValue /\ syncValue # ""

\* the body of syncLabel.translations.forEach for one reference entry
EntryConflicts(name, syncTranslation, branchLabel) ==
    LET j == FindTranslation(branchLabel.translations, syncTranslation)
    IN  IF j = 0
        THEN <<>>
        ELSE IF ConflictTest(syncTranslation.term,
                             branchLabel.translations[j].term)
             THEN <<[label |-> name,
                     language |-> syncTranslation.lang,
                     syncValue |-> syncTranslation.term,
                     branchValue |-> branchLabel.translations[j].term]>>
             ELSE <<>>

\* the body of labelsSync.forEach for one reference label
LabelConflicts(syncLabel, labelsBranch) ==
    LET k == FindLabel(labelsBranch, syncLabel.name)
    IN  IF k = 0
        THEN <<>>
        ELSE Concat([i \in 1..Len(syncLabel.translations) |->
                        EntryConflicts(syncLabel.name,
                                       syncLabel.translations[i],
                                       labelsBranch[k])])

\* the conflicts of one file
FileConflicts(labelsSync, labelsBranch) ==
    Concat([k \in 1..Len(labelsSync) |->
               LabelConflicts(labelsSync[k], labelsBranch)])

NotScanned == [done |-> FALSE, conflicts |-> <<>>]

\* the comparison of the two parsed versions
Scan ==
    /\ ~scanOut.done
    /\ scanOut' = [done |-> TRUE,
                   conflicts |-> FileConflicts(scanSync, scanBranch)]
    /\ UNCHANGED <<scanSync, scanBranch>>
    /\ UNCHANGED <<remoteVars, mergeVars, changedVars, updateVars, extraVars,
                   conflictVars, diffVars>>

\* ----------------------------------------------------------- getConflicts
\* the texts of a file on main and on the branch: each parses to a document
\* with a `labels` list, or does not
ScanText(term) ==
    [parses |-> TRUE,
     labels |-> <<[name |-> "a",
                   translations |-> <<[lang |-> "fr", term |-> term]>>]>>]
BadText == [parses |-> FALSE, labels |-> <<>>]
BlobChoices ==
    {[main |-> ScanText("p"), branch |-> ScanText("p")],
     [main |-> ScanText("p"), branch |-> ScanText("q")],
     [main |-> ScanText(""), branch |-> ScanText("q")],
     [main |-> ScanText("p"), branch |-> BadText]}

\* the pull request stores these requests start from: open pull requests of
\* the working branch, or none
BatchPullStores ==
    PullStoresOf({c \in PullChoice :
                     ~c.present \/ (c.head = Branch /\ ~c.draft
                                    /\ c.mergeable = "true")})

\* the host lists the files of a compare by name
SortedFileLists ==
    {l \in FileLists : \A i, j \in 1..Len(l) : i < j => l[i] < l[j]}

Includes(seq, x) == \E i \in 1..Len(seq) : seq[i] = x

\* the catch block of GET /conflicts and of GET /diff
BatchRouteStatus(error) ==
    IF error.response # 0 THEN error.response ELSE 500

\* getConflicts rejects with `error`; the route answers
ConflictsThrow(error) ==
    /\ cPc' = "failed"
    /\ cRes' = [kind |-> "error", file |-> 0, list |-> <<>>,
                status |-> BatchRouteStatus(error)]

\* GET /repos/{owner}/{repo}/pulls, then the branch on the list's length
ConflictsListPulls ==
    /\ cPc = "list"
    /\ \/ \E e \in RemoteErrors : ConflictsThrow(e)
       \/ /\ cPc' = IF FilterPulls(pulls, Branch, Main) = {}
                    THEN "compare" ELSE "files"
          /\ UNCHANGED cRes
    /\ UNCHANGED <<syncFiles, blobs, cFiles, cSync, cCommon, cFetch, cOut,
                   cOrder, cReads>>
    /\ UNCHANGED <<remoteVars, mergeVars, changedVars, updateVars, extraVars,
                   scanVars, diffVars>>

\* GET /repos/{owner}/{repo}/compare/main...branch: files of the compare
ConflictsCompare ==
    /\ cPc = "compare"
    /\ \/ /\ \E e \in RemoteErrors : ConflictsThrow(e)
          /\ UNCHANGED cFiles
       \/ /\ cFiles' = prFiles
          /\ cPc' = "sync"
          /\ UNCHANGED cRes
    /\ UNCHANGED <<syncFiles, blobs, cSync, cCommon, cFetch, cOut, cOrder,
                   cReads>>
    /\ UNCHANGED <<remoteVars, mergeVars, changedVars, updateVars, extraVars,
                   scanVars, diffVars>>

\* GET /repos/{owner}/{repo}/pulls/{pull_number}/files of the first listed
ConflictsListFiles ==
    /\ cPc = "files"
    /\ \/ /\ \E e \in RemoteErrors : ConflictsThrow(e)
          /\ UNCHANGED cFiles
       \/ /\ cFiles' = prFiles
          /\ cPc' = "sync"
          /\ UNCHANGED cRes
    /\ UNCHANGED <<syncFiles, blobs, cSync, cCommon, cFetch, cOut, cOrder,
                   cReads>>
    /\ UNCHANGED <<remoteVars, mergeVars, changedVars, updateVars, extraVars,
                   scanVars, diffVars>>

\* every file of the branch side is a candidate, whatever main changed
CommonFiles_All(mainBranchFiles, syncBranchFiles) == mainBranchFiles

\* mainBranchFiles.filter((filename) => syncBranchFiles.includes(filename))
CommonFiles(mainBranchFiles, syncBranchFiles) ==
    SelectSeq(mainBranchFiles, LAMBDA f : Includes(syncBranchFiles, f))

NoEntry == [filename |-> 0, conflicts |-> <<>>]

\* GET /repos/{owner}/{repo}/compare/branch...main, the common files, and
\* the return of [] when there is none
ConflictsCompareSync ==
    /\ cPc = "sync"
    /\ \/ /\ \E e \in RemoteErrors : ConflictsThrow(e)
          /\ UNCHANGED <<cSync, cCommon, cFetch, cOut>>
       \/ LET common == CommonFiles(cFiles, syncFiles)
          IN  /\ cSync' = syncFiles
              /\ cCommon' = common
              /\ cFetch' = [i \in 1..Len(common) |-> "todo"]
              /\ cOut' = [i \in 1..Len(common) |-> NoEntry]
              /\ IF Len(common) = 0
                 THEN /\ cPc' = "done"
                      /\ cRes' = [kind |-> "list", file |-> 0, list |-> <<>>,
                                  status |-> 204]
                 ELSE /\ cPc' = "fetch"
                      /\ UNCHANGED cRes
    /\ UNCHANGED <<syncFiles, blobs, cFiles, cOrder, cReads>>
    /\ UNCHANGED <<remoteVars, mergeVars, changedVars, updateVars, extraVars,
                   scanVars, diffVars>>

\* the entry the catch block of the callback returns for a file
Placeholder(fname) ==
    [filename |-> fname, conflicts |-> <<[error |-> fname]>>]

\* results collected as the callbacks complete
JoinSlot_Completion(i, order) == Len(order) + 1

\* Promise.all(list.map(callback)): the value of the i-th callback is the
\* i-th element of the result, whenever it completes
JoinSlot(i, order) == i

\* what getConflicts returns for the joined list: all of it when some
\* element has an entry in its conflicts, [] otherwise
ConflictsReturn(list) ==
    IF \E i \in 1..Len(list) : Len(list[i].conflicts) > 0
    THEN list
    ELSE <<>>

\* the answer of GET /conflicts for a returned list
ConflictsAnswer(list) ==
    [kind |-> "list", file |-> 0, list |-> list,
     status |-> IF Len(list) = 0 THEN 204 ELSE 200]

\* callback i returns `entry`; with the last callback Promise.all resolves
\* and getConflicts returns
ConflictsComplete(i, entry) ==
    LET out == [cOut EXCEPT ![JoinSlot(i, cOrder)] = entry]
        fetch == [cFetch EXCEPT ![i] = "done"]
    IN  /\ cOut' = out
        /\ cFetch' = fetch
        /\ cOrder' = Append(cOrder, i)
        /\ IF \A j \in 1..Len(fetch) : fetch[j] = "done"
           THEN /\ cPc' = "done"
                /\ cRes' = ConflictsAnswer(ConflictsReturn(out))
           ELSE UNCHANGED <<cPc, cRes>>

\* a callback whose failure rejects the whole call, as in getChangedFiles
ConflictsFileFailed_Abort(i) ==
    /\ cPc' = "failed"
    /\ cRes' = [kind |-> "error", file |-> cCommon[i], list |-> <<>>,
                status |-> 500]
    /\ cFetch' = [cFetch EXCEPT ![i] = "failed"]
    /\ UNCHANGED <<cOut, cOrder>>

\* catch (err) of the callback: the placeholder entry is its value
ConflictsFileFailed(i) == ConflictsComplete(i, Placeholder(cCommon[i]))

\* the request for the content of common file i on main
ConflictsFetchSync(i) ==
    /\ cPc = "fetch"
    /\ cFetch[i] = "todo"
    /\ cReads' = cReads \cup {<<cCommon[i], Main>>}
    /\ \/ ConflictsFileFailed(i)
       \/ /\ cFetch' = [cFetch EXCEPT ![i] = "sync"]
          /\ UNCHANGED <<cOut, cOrder, cPc, cRes>>
    /\ UNCHANGED <<syncFiles, blobs, cFiles, cSync, cCommon>>
    /\ UNCHANGED <<remoteVars, mergeVars, changedVars, updateVars, extraVars,
                   scanVars, diffVars>>

\* the request for the content of common file i on the branch, the parse of
\* both texts and the comparison
ConflictsFetchBranch(i) ==
    /\ cPc = "fetch"
    /\ cFetch[i] = "sync"
    /\ cReads' = cReads \cup {<<cCommon[i], Branch>>}
    /\ \/ ConflictsFileFailed(i)
       \/ LET b == blobs[cCommon[i]]
          IN  IF b.main.parses /\ b.branch.parses
              THEN ConflictsComplete(i,
                      [filename |-> cCommon[i],
                       conflicts |-> FileConflicts(b.main.labels,
                                                   b.branch.labels)])
              ELSE ConflictsFileFailed(i)
    /\ UNCHANGED <<syncFiles, blobs, cFiles, cSync, cCommon>>
    /\ UNCHANGED <<remoteVars, mergeVars, changedVars, updateVars, extraVars,
                   scanVars, diffVars>>

\* -------------------------------------------------------- getDetailedDiff
\* getDetailedDiff rejects with `error`; the route answers
DiffThrow(error) ==
    /\ dPc' = "failed"
    /\ dRes' = [kind |-> "error", file |-> 0, list |-> <<>>,
                status |-> BatchRouteStatus(error)]

\* GET /repos/{owner}/{repo}/pulls, then the branch on the list's length
DiffListPulls ==
    /\ dPc = "list"
    /\ \/ \E e \in RemoteErrors : DiffThrow(e)
       \/ /\ dPc' = IF FilterPulls(pulls, Branch, Main) = {}
                    THEN "compare" ELSE "files"
          /\ UNCHANGED dRes
    /\ UNCHANGED <<dFiles, dFetch, dOut, dOrder>>
    /\ UNCHANGED <<remoteVars, mergeVars, changedVars, updateVars, extraVars,
                   scanVars, conflictVars>>

\* `files` is known: Promise.all over an empty list resolves at once
DiffGotFiles(files) ==
    /\ dFiles' = files
    /\ dFetch' = [i \in 1..Len(files) |-> "todo"]
    /\ dOut' = [i \in 1..Len(files) |-> [filename |-> 0, content |-> <<>>]]
    /\ IF Len(files) = 0
       THEN /\ dPc' = "done"
            /\ dRes' = [kind |-> "list", file |-> 0, list |-> <<>>,
                        status |-> 200]
       ELSE /\ dPc' = "fetch"
            /\ UNCHANGED dRes

\* GET /repos/{owner}/{repo}/compare/main...branch: files of the compare
DiffCompare ==
    /\ dPc = "compare"
    /\ \/ /\ \E e \in RemoteErrors : DiffThrow(e)
          /\ UNCHANGED <<dFiles, dFetch, dOut>>
       \/ DiffGotFiles(prFiles)
    /\ UNCHANGED dOrder
    /\ UNCHANGED <<remoteVars, mergeVars, changedVars, updateVars, extraVars,
                   scanVars, conflictVars>>

\* GET /repos/{owner}/{repo}/pulls/{pull_number}/files of the first listed
DiffListFiles ==
    /\ dPc = "files"
    /\ \/ /\ \E e \in RemoteErrors : DiffThrow(e)
          /\ UNCHANGED <<dFiles, dFetch, dOut>>
       \/ DiffGotFiles(prFiles)
    /\ UNCHANGED dOrder
    /\ UNCHANGED <<remoteVars, mergeVars, changedVars, updateVars, extraVars,
                   scanVars, conflictVars>>

\* catch (error) of the callback: Promise.all rejects with an error that
\* names the file, and so does getDetailedDiff; the route answers 500
DiffFileFailed(i) ==
    /\ dPc' = "failed"
    /\ dRes' = [kind |-> "error", file |-> dFiles[i], list |-> <<>>,
                status |-> BatchRouteStatus(FileError)]
    /\ dFetch' = [dFetch EXCEPT ![i] = "failed"]
    /\ UNCHANGED <<dOut, dOrder>>

\* the request for the content of file i on the branch and its parse; with
\* the last callback Promise.all resolves and getDetailedDiff returns
DiffFetch(i) ==
    /\ dPc = "fetch"
    /\ dFetch[i] = "todo"
    /\ \/ DiffFileFailed(i)
       \/ IF blobs[dFiles[i]].branch.parses
          THEN LET out == [dOut EXCEPT ![JoinSlot(i, dOrder)] =
                             [filename |-> dFiles[i],
                              content |-> blobs[dFiles[i]].branch.labels]]
                   fetch == [dFetch EXCEPT ![i] = "done"]
               IN  /\ dOut' = out
                   /\ dFetch' = fetch
                   /\ dOrder' = Append(dOrder, i)
                   /\ IF \A j \in 1..Len(fetch) : fetch[j] = "done"
                      THEN /\ dPc' = "done"
                           /\ dRes' = [kind |-> "list", file |-> 0,
                                       list |-> out, status |-> 200]
                      ELSE UNCHANGED <<dPc, dRes>>
          ELSE DiffFileFailed(i)
    /\ UNCHANGED dFiles
    /\ UNCHANGED <<remoteVars, mergeVars, changedVars, updateVars, extraVars,
                   scanVars, conflictVars>>

\* ------------------------------------------------------------ getReviewers
Logins == {"r1", "r2"}

\* a rejected request of the remote client carries the status of the answer,
\* as error.status and as error.response.status, or neither
HostErrors == {e \in RemoteErrors : e.response = e.status}

\* new Error(message): it carries no status and no response
PlainError(message) == [status |-> 0, response |-> 0, type |-> message]

NotFoundMessage == "reviewers.json file not found in the main branch"
NotArrayMessage == "Reviewers file must contain an array of objects"
NoReviewersMessage == "No valid reviewers found in reviewers.json"

\* message.includes(phrase), for the messages and the phrases of this service
MessageIncludes(message, phrase) ==
    \/ message = NotFoundMessage /\ phrase = "not found"
    \/ message = NoReviewersMessage /\ phrase = "No valid reviewers"

\* an element of the manifest: an object with its keys in order, or null
ObjectEntry(keys) == [null |-> FALSE, keys |-> keys]
NullEntry == [null |-> TRUE, keys |-> <<>>]
ManifestEntries ==
    {ObjectEntry(<<>>), ObjectEntry(<<"r1">>), ObjectEntry(<<"r2", "r1">>),
     NullEntry}

\* reviewers.json on main: absent, not JSON, JSON that is no array, or an
\* array of elements
ManifestOf(entries) ==
    [exists |-> TRUE, parses |-> TRUE, isArray |-> TRUE, entries |-> entries]
AbsentManifest ==
    [exists |-> FALSE, parses |-> FALSE, isArray |-> FALSE, entries |-> <<>>]
UnparsableManifest ==
    [exists |-> TRUE, parses |-> FALSE, isArray |-> FALSE, entries |-> <<>>]
NotArrayManifest ==
    [exists |-> TRUE, parses |-> TRUE, isArray |-> FALSE, entries |-> <<>>]
Manifests ==
    {AbsentManifest, UnparsableManifest, NotArrayManifest}
        \cup {ManifestOf(s) : s \in SeqsUpTo(ManifestEntries, MaxEntries)}

NoUsername == ""

\* keys.length > 0 ? keys[0] : null, of a single-key object alone
FirstKey_SingleKeyOnly(entry) ==
    IF Len(entry.keys) = 1 THEN entry.keys[1] ELSE NoUsername

\* keys.length > 0 ? keys[0] : null
FirstKey(entry) ==
    IF Len(entry.keys) > 0 THEN entry.keys[1] ELSE NoUsername

\* reviewerUsernames: the first key of each object, the keyless ones dropped
ReviewerUsernames(entries) ==
    SelectSeq([i \in 1..Len(entries) |-> FirstKey(entries[i])],
              LAMBDA username : username # NoUsername)

Returned(usernames) ==
    [ok |-> TRUE, usernames |-> usernames, error |-> NoError]
Thrown(error) == [ok |-> FALSE, usernames |-> <<>>, error |-> error]

\* the catch block of getReviewers
ReviewersCatch(error) ==
    IF error.status = 404 THEN PlainError(NotFoundMessage) ELSE error

\* the try block of getReviewers once the manifest is fetched
ReviewersParsed(m) ==
    IF ~m.parses THEN Thrown(PlainError("SyntaxError"))
    ELSE IF ~m.isArray THEN Thrown(PlainError(NotArrayMessage))
    ELSE IF \E i \in 1..Len(m.entries) : m.entries[i].null
    THEN Thrown(PlainError("TypeError"))
    ELSE IF ReviewerUsernames(m.entries) = <<>>
    THEN Thrown(PlainError(NoReviewersMessage))
    ELSE Returned(ReviewerUsernames(m.entries))

\* what the host answers to the GET of a manifest: 404 for an absent one
ManifestErrors(m) ==
    IF m.exists THEN HostErrors
    ELSE {[status |-> 404, response |-> 404, type |-> ""]}

\* every way getReviewers can end on manifest m
GetReviewers(m) ==
    {Thrown(ReviewersCatch(e)) : e \in ManifestErrors(m)}
        \cup (IF ~m.exists THEN {}
              ELSE IF ReviewersParsed(m).ok THEN {ReviewersParsed(m)}
              ELSE {Thrown(ReviewersCatch(ReviewersParsed(m).error))})

\* the catch block of GET /reviewers
ReviewersRouteStatus(error) ==
    IF MessageIncludes(error.type, "not found") THEN 404
    ELSE IF MessageIncludes(error.type, "No valid reviewers") THEN 400
    ELSE 500

NoReviewersRes ==
    [kind |-> "none", usernames |-> <<>>, error |-> NoError, status |-> 0]

\* GET /reviewers: getReviewers and the answer of the route
ReviewersGet ==
    /\ rPc = "get"
    /\ \E o \in GetReviewers(manifest) :
          IF o.ok
          THEN /\ rPc' = "done"
               /\ rRes' = [kind |-> "list", usernames |-> o.usernames,
                           error |-> NoError, status |-> 200]
          ELSE /\ rPc' = "failed"
               /\ rRes' = [kind |-> "error", usernames |-> <<>>,
                           error |-> o.error,
                           status |-> ReviewersRouteStatus(o.error)]
    /\ UNCHANGED <<remoteVars, mergeVars, changedVars, updateVars, batchVars,
                   validationVars, currentVars, manifest, prComments, fileLines, aPc,
                   aLines, aComments, aRes, xPc>>

\* ------------------------------------------------------- checkFileApproval
CheckedFile == "f"
Paths == {"f", "g"}

\* toLowerCase, on the symbols texts are made of here
LowerChar(c) ==
    CASE c = "A" -> "a"
      [] c = "Approved-" -> "approved-"
      [] OTHER -> c
ToLowerCase(s) == [i \in 1..Len(s) |-> LowerChar(s[i])]

\* trim
Trim(s) ==
    LET inked == {i \in 1..Len(s) : s[i] # " "}
    IN  IF inked = {} THEN <<>>
        ELSE SubSeq(s, CHOOSE i \in inked : \A j \in inked : i <= j,
                       CHOOSE i \in inked : \A j \in inked : i >= j)

\* String.prototype.includes
StrIncludes(s, t) ==
    \E k \in 0..(Len(s) - Len(t)) : SubSeq(s, k + 1, k + Len(t)) = t

\* a line of the file: a label line `- name: ...` with the name it gives,
\* or any other line
LabelLine(name) == [label |-> TRUE, name |-> name]
OtherLine == [label |-> FALSE, name |-> <<>>]
LabelNames == {<<"A">>, <<"a", "b">>}
LineChoices == {LabelLine(n) : n \in LabelNames} \cup {OtherLine}

\* bodies of review comments
Bodies ==
    {<<"approved-", "a", ":">>, <<" ", "Approved-", "A", "b", " ">>,
     <<"approved-", "b">>, <<"a", "b">>}
CommentChoices == [path : Paths, login : Logins, body : Bodies]

\* linesWithName: the lines that include "- name", with their line numbers
LinesWithName(lines) ==
    SelectSeq([i \in 1..Len(lines) |-> [line |-> lines[i], index |-> i]],
              LAMBDA l : l.line.label)

\* the label with `- name`, the colon and the quotes replaced away, trimmed
LabelOf(line) == Trim(line.name)

\* labelToCompare
LabelToCompare(line) == ToLowerCase(Trim(<<"approved-">> \o LabelOf(line)))

\* the callback of comments.some, with the author check left out
Approves_AnyAuthor(comment, reviewers, labelToCompare) ==
    /\ comment.path = CheckedFile
    /\ StrIncludes(ToLowerCase(Trim(comment.body)), labelToCompare)

\* the callback of comments.some and of comments.find
Approves(comment, reviewers, labelToCompare) ==
    /\ comment.path = CheckedFile
    /\ Includes(reviewers, comment.login)
    /\ StrIncludes(ToLowerCase(Trim(comment.body)), labelToCompare)

IsApproved(l, comments, reviewers) ==
    \E k \in 1..Len(comments) :
        Approves(comments[k], reviewers, LabelToCompare(l.line))

\* approvalComment, by its position in the list
ApprovalComment(l, comments, reviewers) ==
    CHOOSE k \in 1..Len(comments) :
        /\ Approves(comments[k], reviewers, LabelToCompare(l.line))
        /\ \A j \in 1..(k - 1) :
              ~Approves(comments[j], reviewers, LabelToCompare(l.line))

ApprovedLabels(lines, comments, reviewers) ==
    LET approved == SelectSeq(lines,
                        LAMBDA l : IsApproved(l, comments, reviewers))
    IN  [i \in 1..Len(approved) |->
            LET k == ApprovalComment(approved[i], comments, reviewers)
            IN  [label |-> LabelOf(approved[i].line),
                 lineNumber |-> approved[i].index,
                 reviewer |-> comments[k].login,
                 comment_id |-> k]]

UnapprovedLabels(lines, comments, reviewers) ==
    LET unapproved == SelectSeq(lines,
                          LAMBDA l : ~IsApproved(l, comments, reviewers))
    IN  [i \in 1..Len(unapproved) |->
            [label |-> LabelOf(unapproved[i].line),
             lineNumber |-> unapproved[i].index]]

\* `approved` of the result, without the test for an approved label
FileApproved_NoneUnapproved(approvedLabels, unapprovedLabels) ==
    Len(unapprovedLabels) = 0

\* `approved` of the result
FileApproved(approvedLabels, unapprovedLabels) ==
    Len(unapprovedLabels) = 0 /\ Len(approvedLabels) > 0

NoApprovalRes ==
    [kind |-> "none", approved |-> FALSE, approvedLabels |-> <<>>,
     unapprovedLabels |-> <<>>, eligible_reviewers |-> <<>>,
     error |-> NoError, status |-> 0]

\* the catch block of GET /pr/:prNumber/file/:filePath/approved
ApprovalRouteStatus(error) == IF error.status = 404 THEN 404 ELSE 500

\* checkFileApproval rejects with `error`; the route answers
ApprovalThrow(error) ==
    /\ aPc' = "failed"
    /\ aRes' = [NoApprovalRes EXCEPT !.kind = "error", !.error = error,
                                     !.status = ApprovalRouteStatus(error)]

\* GET of the contents of the checked file on the branch
ApprovalGetFile ==
    /\ aPc = "file"
    /\ \/ /\ \E e \in HostErrors : ApprovalThrow(e)
          /\ UNCHANGED aLines
       \/ /\ aLines' = LinesWithName(fileLines)
          /\ aPc' = "comments"
          /\ UNCHANGED aRes
    /\ UNCHANGED <<remoteVars, mergeVars, changedVars, updateVars, batchVars,
                   validationVars, currentVars, manifest, prComments, fileLines, aComments,
                   rPc, rRes, xPc>>

\* checkFileApproval that also posts an approval of its own
ApprovalGetComments_Posting ==
    /\ aPc = "comments"
    /\ prComments' = Append(prComments,
                        [path |-> CheckedFile, login |-> "r1",
                         body |-> <<"approved-", "a", ":">>])
    /\ aComments' = prComments'
    /\ aPc' = "reviewers"
    /\ UNCHANGED <<remoteVars, mergeVars, changedVars, updateVars, batchVars,
                   validationVars, currentVars, manifest, fileLines, aLines,
                   aRes, rPc, rRes, xPc>>

\* GET of the review comments of the pull request
ApprovalGetComments ==
    /\ aPc = "comments"
    /\ \/ /\ \E e \in HostErrors : ApprovalThrow(e)
          /\ UNCHANGED aComments
       \/ /\ aComments' = prComments
          /\ aPc' = "reviewers"
          /\ UNCHANGED aRes
    /\ UNCHANGED <<remoteVars, mergeVars, changedVars, updateVars, batchVars,
                   validationVars, currentVars, manifest, prComments, fileLines, aLines,
                   rPc, rRes, xPc>>

\* getReviewers, then the pass over the label lines and the result
ApprovalGetReviewers ==
    /\ aPc = "reviewers"
    /\ \E o \in GetReviewers(manifest) :
          IF o.ok
          THEN LET approvedLabels ==
                       ApprovedLabels(aLines, aComments, o.usernames)
                   unapprovedLabels ==
                       UnapprovedLabels(aLines, aComments, o.usernames)
               IN  /\ aPc' = "done"
                   /\ aRes' = [kind |-> "result",
                               approved |-> FileApproved(approvedLabels,
                                                         unapprovedLabels),
                               approvedLabels |-> approvedLabels,
                               unapprovedLabels |-> unapprovedLabels,
                               eligible_reviewers |-> o.usernames,
                               error |-> NoError,
                               status |-> 200]
          ELSE ApprovalThrow(o.error)
    /\ UNCHANGED <<remoteVars, mergeVars, changedVars, updateVars, batchVars,
                   validationVars, currentVars, manifest, prComments, fileLines, aLines,
                   aComments, rPc, rRes, xPc>>

\* ------------------------------------------------------------------ getDiff
\* GET of the compare main...branch; the files of the answer are returned
GetDiff ==
    /\ xPc = "compare"
    /\ xPc' \in {"done", "failed"}
    /\ UNCHANGED <<remoteVars, mergeVars, changedVars, updateVars, batchVars,
                   validationVars, currentVars, manifest, prComments, fileLines, aPc,
                   aLines, aComments, aRes, rPc, rRes>>

\* ------------------------------------------- the middleware of the routes
Routes ==
    {"update", "reposCreate", "merge", "changed", "diff", "conflicts",
     "reviewers", "approved", "comment"}

\* the middleware of a route, in the order the router runs it; "fields" is
\* validateQueryParams or validateBodyFields with the required names
Chain(route) ==
    CASE route = "update" -> <<"token", "fields", "scopeIf", "owner", "handler">>
      [] route = "reposCreate" -> <<"token", "scope", "fields", "owner", "handler">>
      [] route = "comment" -> <<"fields", "handler">>
      [] OTHER -> <<"token", "fields", "owner", "handler">>

\* what a request carries: the authorization header, every required
\* parameter or field, a filename under .github/workflows/, and values of
\* the format the handler asks for
Requests ==
    [token : BOOLEAN, fields : BOOLEAN, workflow : BOOLEAN, valid : BOOLEAN]
NoRequest ==
    [token |-> FALSE, fields |-> FALSE, workflow |-> FALSE, valid |-> FALSE]

At(name) ==
    /\ vStatus = 0
    /\ vAt \in 1..Len(Chain(vRoute))
    /\ Chain(vRoute)[vAt] = name

Answer(status) ==
    /\ vStatus' = status
    /\ UNCHANGED vAt

CallNext ==
    /\ vAt' = vAt + 1
    /\ UNCHANGED vStatus

ValidateGitHubToken ==
    /\ At("token")
    /\ IF ~vReq.token THEN Answer(401) ELSE CallNext
    /\ UNCHANGED <<remoteVars, mergeVars, changedVars, updateVars, batchVars,
                   reviewVars, currentVars, owner, vRoute, vReq, vRemote>>

\* validateQueryParams and validateBodyFields
ValidateFields ==
    /\ At("fields")
    /\ IF ~vReq.fields THEN Answer(400) ELSE CallNext
    /\ UNCHANGED <<remoteVars, mergeVars, changedVars, updateVars, batchVars,
                   reviewVars, currentVars, owner, vRoute, vReq, vRemote>>

\* validateWorkflowScope: GET /user on the host, then the scopes of the
\* answer's header
WorkflowScope ==
    IF ~vReq.token
    THEN Answer(401) /\ UNCHANGED vRemote
    ELSE /\ vRemote' = vRemote + 1
         /\ \/ \E e \in HostErrors :
                  Answer(IF e.response # 0 THEN e.response ELSE 500)
            \/ Answer(401)
            \/ CallNext

ValidateWorkflowScope ==
    /\ At("scope")
    /\ WorkflowScope
    /\ UNCHANGED <<remoteVars, mergeVars, changedVars, updateVars, batchVars,
                   reviewVars, currentVars, owner, vRoute, vReq>>

ValidateWorkflowScopeConditional ==
    /\ At("scopeIf")
    /\ IF vReq.fields /\ vReq.workflow
       THEN WorkflowScope
       ELSE CallNext /\ UNCHANGED vRemote
    /\ UNCHANGED <<remoteVars, mergeVars, changedVars, updateVars, batchVars,
                   reviewVars, currentVars, owner, vRoute, vReq>>

ValidateGitHubOwner ==
    /\ At("owner")
    /\ IF ~owner THEN Answer(500) ELSE CallNext
    /\ UNCHANGED <<remoteVars, mergeVars, changedVars, updateVars, batchVars,
                   reviewVars, currentVars, owner, vRoute, vReq, vRemote>>

\* the handler: the format checks two of the routes make, then the service
\* call with its first request to the host, and the answer
Handler ==
    /\ At("handler")
    /\ IF vRoute \in {"approved", "reposCreate"} /\ ~vReq.valid
       THEN Answer(400) /\ UNCHANGED vRemote
       ELSE /\ vRemote' = vRemote + 1
            /\ \E status \in {200, 404, 500} : Answer(status)
    /\ UNCHANGED <<remoteVars, mergeVars, changedVars, updateVars, batchVars,
                   reviewVars, currentVars, owner, vRoute, vReq>>

\* ------------------- updateFileWithTranslations of the current service
\* the catch block: whatever was thrown becomes a new Error
CurrentCatch(error) ==
    IF error.response # 0
    THEN IF error.response = 404 THEN PlainError("not found")
         ELSE IF error.response = 409 THEN PlainError("Conflict updating")
         ELSE PlainError("GitHub API error")
    ELSE PlainError("Failed to update translations")

CurrentThrow(error, call) ==
    /\ uPc' = "failed"
    /\ uHost' = error.status
    /\ uStatus' = UpdateRouteStatus(CurrentCatch(error))
    /\ uCalls' = Append(uCalls, call)

\* the sha of the write, were it fetched anew right before the write
PutSha_Refetched(responseSha, hostSha) == hostSha

\* const sha = response.data.sha: the sha of the write is the one of the
\* answer to the first request
PutSha(responseSha, hostSha) == responseSha

\* the GET of the contents, parse, the merge step and stringify
CurrentGetContent ==
    /\ uPc = "get"
    /\ \/ /\ \E e \in UpdateErrors :
                CurrentThrow(e, Call("getContent", FALSE))
          /\ UNCHANGED <<uRead, uContent, uSha>>
       \/ /\ uRead' = file
          /\ uContent' = Stringify(ApplyTranslations(Parse(file), uT))
          /\ uSha' = Sha(file)
          /\ uPc' = "put"
          /\ uCalls' = Append(uCalls, Call("getContent", TRUE))
          /\ UNCHANGED <<uStatus, uHost>>
    /\ UNCHANGED <<remoteVars, mergeVars, changedVars, batchVars, reviewVars,
                   validationVars, file, otherWrites, otherInWindow,
                   otherLast, uT>>

\* PUT of the contents with the sha; the host commits when the sha is the
\* one of the file as it is now and answers 409 otherwise
CurrentPut ==
    /\ uPc = "put"
    /\ uSha' = PutSha(uSha, Sha(file))
    /\ \/ /\ \E e \in UpdateErrors :
                CurrentThrow(e, Call("putContent", FALSE))
          /\ UNCHANGED file
       \/ /\ uSha' # Sha(file)
          /\ CurrentThrow([status |-> 409, response |-> 409, type |-> ""],
                          Call("putContent", FALSE))
          /\ UNCHANGED file
       \/ /\ uSha' = Sha(file)
          /\ file' = uContent
          /\ uPc' = "done"
          /\ uStatus' = 200
          /\ uCalls' = Append(uCalls, Call("putContent", TRUE))
          /\ UNCHANGED uHost
    /\ UNCHANGED <<remoteVars, mergeVars, changedVars, batchVars, reviewVars,
                   validationVars, otherWrites, otherInWindow, otherLast, uT,
                   uRead, uContent>>

\* another client commits to the file between the read and the write
CurrentOtherWrite ==
    /\ uPc = "put"
    /\ OtherWrite

\* ------------------------------------------------- the specifications
MergeIdle ==
    /\ mPc = "idle"
    /\ mList = <<>>
    /\ mDetails = NoDetails
    /\ mMerged = "none"
    /\ mCalls = <<>>
    /\ mErr = NoError
    /\ mHttp = NoHttp

ChangedIdle ==
    /\ aheadBy = 0
    /\ prFiles = <<>>
    /\ gPc = [c \in Callers |-> "idle"]
    /\ gList = [c \in Callers |-> <<>>]
    /\ gAhead = [c \in Callers |-> -1]
    /\ gPull = [c \in Callers |-> 0]
    /\ gFiles = [c \in Callers |-> <<>>]
    /\ gFetch = [c \in Callers |-> <<>>]
    /\ gOut = [c \in Callers |-> <<>>]
    /\ gCalls = [c \in Callers |-> <<>>]
    /\ gRes = [c \in Callers |-> NoRes]

NoText == [doc |-> <<>>, comments |-> FALSE]

UpdateIdle ==
    /\ file = NoText
    /\ otherWrites = 0
    /\ otherInWindow = FALSE
    /\ otherLast = NoText
    /\ uPc = "idle"
    /\ uT = <<>>
    /\ uRead = NoText
    /\ uContent = NoText
    /\ uSha = Sha(NoText)
    /\ uCalls = <<>>
    /\ uStatus = 0

ScanIdle ==
    /\ scanSync = <<>>
    /\ scanBranch = <<>>
    /\ scanOut = NotScanned

NoBatchRes == [kind |-> "none", file |-> 0, list |-> <<>>, status |-> 0]

ConflictsIdle ==
    /\ syncFiles = <<>>
    /\ blobs = <<>>
    /\ cPc = "idle"
    /\ cFiles = <<>>
    /\ cSync = <<>>
    /\ cCommon = <<>>
    /\ cFetch = <<>>
    /\ cOut = <<>>
    /\ cOrder = <<>>
    /\ cReads = {}
    /\ cRes = NoBatchRes

DiffIdle ==
    /\ dPc = "idle"
    /\ dFiles = <<>>
    /\ dFetch = <<>>
    /\ dOut = <<>>
    /\ dOrder = <<>>
    /\ dRes = NoBatchRes

BatchIdle == ScanIdle /\ ConflictsIdle /\ DiffIdle

ReviewIdle ==
    /\ manifest = AbsentManifest
    /\ prComments = <<>>
    /\ fileLines = <<>>
    /\ aPc = "idle"
    /\ aLines = <<>>
    /\ aComments = <<>>
    /\ aRes = NoApprovalRes
    /\ rPc = "idle"
    /\ rRes = NoReviewersRes
    /\ xPc = "idle"

ValidationIdle ==
    /\ owner = TRUE
    /\ vRoute = "none"
    /\ vReq = NoRequest
    /\ vAt = 0
    /\ vRemote = 0
    /\ vStatus = 0

CurrentIdle == uHost = 0

ExtraIdle == ReviewIdle /\ ValidationIdle /\ CurrentIdle

InitMerge ==
    /\ pulls \in PullStores
    /\ mergedPulls = {}
    /\ branchExists = TRUE
    /\ mPc = "list"
    /\ mList = <<>>
    /\ mDetails = NoDetails
    /\ mMerged = "none"
    /\ mCalls = <<>>
    /\ mErr = NoError
    /\ mHttp = NoHttp
    /\ ChangedIdle
    /\ UpdateIdle
    /\ BatchIdle
    /\ ExtraIdle

NextMerge ==
    \/ MergeListPulls
    \/ MergeGetDetails
    \/ MergeMarkReady
    \/ MergeMerge
    \/ MergeDeleteBranch

SpecMerge == InitMerge /\ [][NextMerge]_vars

\* one GET /changed request against any store, any ahead count, any file list
InitChanged ==
    /\ pulls \in ChangedPullStores
    /\ mergedPulls = {}
    /\ branchExists = TRUE
    /\ MergeIdle
    /\ aheadBy \in 0..MaxAhead
    /\ prFiles \in FileLists
    /\ gPc = [c \in Callers |-> IF c = "c1" THEN "list" ELSE "idle"]
    /\ gList = [c \in Callers |-> <<>>]
    /\ gAhead = [c \in Callers |-> -1]
    /\ gPull = [c \in Callers |-> 0]
    /\ gFiles = [c \in Callers |-> <<>>]
    /\ gFetch = [c \in Callers |-> <<>>]
    /\ gOut = [c \in Callers |-> <<>>]
    /\ gCalls = [c \in Callers |-> <<>>]
    /\ gRes = [c \in Callers |-> NoRes]
    /\ UpdateIdle
    /\ BatchIdle
    /\ ExtraIdle

NextChanged ==
    \/ \E c \in Callers : ChangedListPulls(c)
    \/ \E c \in Callers : ChangedCompare(c)
    \/ \E c \in Callers : ChangedCreate(c)
    \/ \E c \in Callers : ChangedListFiles(c)
    \/ \E c \in Callers : \E i \in 1..Len(gFiles[c]) : ChangedFetchBefore(c, i)
    \/ \E c \in Callers : \E i \in 1..Len(gFiles[c]) : ChangedFetchAfter(c, i)
    \/ \E c \in Callers : ChangedComments(c)

SpecChanged == InitChanged /\ [][NextChanged]_vars

\* one PUT /update request on any file and any translations, next to
\* another client that commits to the same file
InitUpdate ==
    /\ pulls = {}
    /\ mergedPulls = {}
    /\ branchExists = TRUE
    /\ MergeIdle
    /\ ChangedIdle
    /\ file \in TextsOver(FileTerms)
    /\ otherWrites = 0
    /\ otherInWindow = FALSE
    /\ otherLast = NoText
    /\ uPc = "get"
    /\ uT \in TranslationMaps
    /\ uRead = NoText
    /\ uContent = NoText
    /\ uSha = Sha(NoText)
    /\ uCalls = <<>>
    /\ uStatus = 0
    /\ BatchIdle
    /\ ExtraIdle

NextUpdate ==
    \/ UpdateGetContent
    \/ UpdateGetSha
    \/ UpdatePut
    \/ OtherWrite

SpecUpdate == InitUpdate /\ [][NextUpdate]_vars


\* one comparison of any reference version with any branch version
InitScan ==
    /\ pulls = {}
    /\ mergedPulls = {}
    /\ branchExists = TRUE
    /\ MergeIdle
    /\ ChangedIdle
    /\ UpdateIdle
    /\ scanSync \in ScanDocs(ScanSyncNames, ScanSyncTerms)
    /\ scanBranch \in ScanDocs(Names, ScanBranchTerms)
    /\ scanOut = NotScanned
    /\ ConflictsIdle
    /\ DiffIdle
    /\ ExtraIdle

NextScan == Scan

SpecScan == InitScan /\ [][NextScan]_vars

\* one GET /conflicts request against any store, any two file lists and any
\* texts of the files both lists name
InitConflicts ==
    /\ pulls \in BatchPullStores
    /\ mergedPulls = {}
    /\ branchExists = TRUE
    /\ MergeIdle
    /\ aheadBy = 0
    /\ prFiles \in FileLists
    /\ gPc = [c \in Callers |-> "idle"]
    /\ gList = [c \in Callers |-> <<>>]
    /\ gAhead = [c \in Callers |-> -1]
    /\ gPull = [c \in Callers |-> 0]
    /\ gFiles = [c \in Callers |-> <<>>]
    /\ gFetch = [c \in Callers |-> <<>>]
    /\ gOut = [c \in Callers |-> <<>>]
    /\ gCalls = [c \in Callers |-> <<>>]
    /\ gRes = [c \in Callers |-> NoRes]
    /\ UpdateIdle
    /\ ScanIdle
    /\ syncFiles \in SortedFileLists
    /\ blobs \in [{f \in 1..MaxFiles :
                      Includes(prFiles, f) /\ Includes(syncFiles, f)}
                  -> BlobChoices]
    /\ cPc = "list"
    /\ cFiles = <<>>
    /\ cSync = <<>>
    /\ cCommon = <<>>
    /\ cFetch = <<>>
    /\ cOut = <<>>
    /\ cOrder = <<>>
    /\ cReads = {}
    /\ cRes = NoBatchRes
    /\ DiffIdle
    /\ ExtraIdle

NextConflicts ==
    \/ ConflictsListPulls
    \/ ConflictsCompare
    \/ ConflictsListFiles
    \/ ConflictsCompareSync
    \/ \E i \in 1..Len(cCommon) : ConflictsFetchSync(i)
    \/ \E i \in 1..Len(cCommon) : ConflictsFetchBranch(i)

SpecConflicts == InitConflicts /\ [][NextConflicts]_vars

\* one GET /diff request against any store, any file list and any texts of
\* the listed files
InitDiff ==
    /\ pulls \in BatchPullStores
    /\ mergedPulls = {}
    /\ branchExists = TRUE
    /\ MergeIdle
    /\ aheadBy = 0
    /\ prFiles \in FileLists
    /\ gPc = [c \in Callers |-> "idle"]
    /\ gList = [c \in Callers |-> <<>>]
    /\ gAhead = [c \in Callers |-> -1]
    /\ gPull = [c \in Callers |-> 0]
    /\ gFiles = [c \in Callers |-> <<>>]
    /\ gFetch = [c \in Callers |-> <<>>]
    /\ gOut = [c \in Callers |-> <<>>]
    /\ gCalls = [c \in Callers |-> <<>>]
    /\ gRes = [c \in Callers |-> NoRes]
    /\ UpdateIdle
    /\ ScanIdle
    /\ syncFiles = <<>>
    /\ blobs \in [{f \in 1..MaxFiles : Includes(prFiles, f)} ->
                     {b \in BlobChoices : b.main = ScanText("p")}]
    /\ cPc = "idle"
    /\ cFiles = <<>>
    /\ cSync = <<>>
    /\ cCommon = <<>>
    /\ cFetch = <<>>
    /\ cOut = <<>>
    /\ cOrder = <<>>
    /\ cReads = {}
    /\ cRes = NoBatchRes
    /\ dPc = "list"
    /\ dFiles = <<>>
    /\ dFetch = <<>>
    /\ dOut = <<>>
    /\ dOrder = <<>>
    /\ dRes = NoBatchRes
    /\ ExtraIdle

NextDiff ==
    \/ DiffListPulls
    \/ DiffCompare
    \/ DiffListFiles
    \/ \E i \in 1..Len(dFiles) : DiffFetch(i)

\* the three requests that fetch per file concurrently: a run is one
\* GET /changed, one GET /diff or one GET /conflicts request
InitFanOut == InitChanged \/ InitDiff \/ InitConflicts

NextFanOut == NextChanged \/ NextDiff \/ NextConflicts

SpecFanOut == InitFanOut /\ [][NextFanOut]_vars

\* the merge step on any file and any translations
NextMergeStep == UpdateMergeStep

SpecMergeStep == InitUpdate /\ [][NextMergeStep]_vars

\* ---------------------------------- the approval scanner, the manifest
\* the manifests the approval scanner is run on
ApprovalManifests ==
    {AbsentManifest, NotArrayManifest,
     ManifestOf(<<ObjectEntry(<<"r1">>)>>),
     ManifestOf(<<ObjectEntry(<<"r2", "r1">>)>>)}

\* everything but the review operations at rest
OthersIdle ==
    /\ pulls = {}
    /\ mergedPulls = {}
    /\ branchExists = TRUE
    /\ MergeIdle
    /\ ChangedIdle
    /\ UpdateIdle
    /\ BatchIdle
    /\ ValidationIdle
    /\ CurrentIdle

\* one GET /pr/:prNumber/file/:filePath/approved request on any file, any
\* review comments and a manifest
InitApproval ==
    /\ OthersIdle
    /\ manifest \in ApprovalManifests
    /\ prComments \in SeqsUpTo(CommentChoices, MaxComments)
    /\ fileLines \in SeqsUpTo(LineChoices, MaxLines)
    /\ aPc = "file"
    /\ aLines = <<>>
    /\ aComments = <<>>
    /\ aRes = NoApprovalRes
    /\ rPc = "idle"
    /\ rRes = NoReviewersRes
    /\ xPc = "idle"

NextApproval ==
    \/ ApprovalGetFile
    \/ ApprovalGetComments
    \/ ApprovalGetReviewers

SpecApproval == InitApproval /\ [][NextApproval]_vars

\* one GET /reviewers request on any manifest
InitReviewers ==
    /\ OthersIdle
    /\ manifest \in Manifests
    /\ prComments = <<>>
    /\ fileLines = <<>>
    /\ aPc = "idle"
    /\ aLines = <<>>
    /\ aComments = <<>>
    /\ aRes = NoApprovalRes
    /\ rPc = "get"
    /\ rRes = NoReviewersRes
    /\ xPc = "idle"

NextReviewers == ReviewersGet

SpecReviewers == InitReviewers /\ [][NextReviewers]_vars

\* one request on any route, carrying anything
InitRoutes ==
    /\ pulls = {}
    /\ mergedPulls = {}
    /\ branchExists = TRUE
    /\ MergeIdle
    /\ ChangedIdle
    /\ UpdateIdle
    /\ BatchIdle
    /\ ReviewIdle
    /\ CurrentIdle
    /\ owner \in BOOLEAN
    /\ vRoute \in Routes
    /\ vReq \in Requests
    /\ vAt = 1
    /\ vRemote = 0
    /\ vStatus = 0

NextRoutes ==
    \/ ValidateGitHubToken
    \/ ValidateFields
    \/ ValidateWorkflowScope
    \/ ValidateWorkflowScopeConditional
    \/ ValidateGitHubOwner
    \/ Handler

SpecRoutes == InitRoutes /\ [][NextRoutes]_vars

\* one PUT /update request served by the current service, next to another
\* client that commits to the same file
NextCurrent ==
    \/ CurrentGetContent
    \/ CurrentPut
    \/ OtherWrite

\* files of at most one label, translations for at most one name
CurrentTexts ==
    [doc : SeqsUpTo(LabelsOver(FileTerms), 1), comments : BOOLEAN]
CurrentMaps ==
    UNION {[D -> LangMaps] : D \in {{}} \cup {{n} : n \in Names}}

InitCurrent ==
    /\ pulls = {}
    /\ mergedPulls = {}
    /\ branchExists = TRUE
    /\ MergeIdle
    /\ ChangedIdle
    /\ file \in CurrentTexts
    /\ otherWrites = 0
    /\ otherInWindow = FALSE
    /\ otherLast = NoText
    /\ uPc = "get"
    /\ uT \in CurrentMaps
    /\ uRead = NoText
    /\ uContent = NoText
    /\ uSha = Sha(NoText)
    /\ uCalls = <<>>
    /\ uStatus = 0
    /\ BatchIdle
    /\ ExtraIdle

SpecCurrent == InitCurrent /\ [][NextCurrent]_vars

\* two GET /changed requests on the same branch at once: no pull request of
\* the branch yet, the branch ahead of main, at most one changed file
InitRace ==
    /\ pulls \in {s \in ChangedPullStores : FilterPulls(s, Branch, Main) = {}}
    /\ mergedPulls = {}
    /\ branchExists = TRUE
    /\ MergeIdle
    /\ aheadBy \in 1..MaxAhead
    /\ prFiles \in {l \in FileLists : Len(l) <= 1}
    /\ gPc = [c \in Callers |-> "list"]
    /\ gList = [c \in Callers |-> <<>>]
    /\ gAhead = [c \in Callers |-> -1]
    /\ gPull = [c \in Callers |-> 0]
    /\ gFiles = [c \in Callers |-> <<>>]
    /\ gFetch = [c \in Callers |-> <<>>]
    /\ gOut = [c \in Callers |-> <<>>]
    /\ gCalls = [c \in Callers |-> <<>>]
    /\ gRes = [c \in Callers |-> NoRes]
    /\ UpdateIdle
    /\ BatchIdle
    /\ ExtraIdle

SpecRace == InitRace /\ [][NextChanged]_vars

\* one getDiff call
InitGetDiff ==
    /\ OthersIdle
    /\ manifest = AbsentManifest
    /\ prComments = <<>>
    /\ fileLines = <<>>
    /\ aPc = "idle"
    /\ aLines = <<>>
    /\ aComments = <<>>
    /\ aRes = NoApprovalRes
    /\ rPc = "idle"
    /\ rRes = NoReviewersRes
    /\ xPc = "compare"

\* one call of any of the read-style operations
InitReads ==
    \/ InitChanged
    \/ InitDiff
    \/ InitConflicts
    \/ InitGetDiff
    \/ InitReviewers
    \/ InitApproval

NextReads ==
    \/ NextChanged
    \/ NextDiff
    \/ NextConflicts
    \/ GetDiff
    \/ NextReviewers
    \/ NextApproval

SpecReads == InitReads /\ [][NextReads]_vars

\* ---------------------------------------------- properties of mergeBranch
HasCall(calls, op) == \E i \in 1..Len(calls) : calls[i].op = op
HasCallOk(calls, op, ok) == \E i \in 1..Len(calls) : calls[i] = Call(op, ok)
DetailsFetched == HasCallOk(mCalls, "getPull", TRUE)

\* C5: for a draft pull request with mergeable = true, every merge call is
\* preceded in the call sequence by a mark-ready call that succeeded, and
\* after a failed mark-ready call no merge call is issued.
C5_MarkReadyBeforeMerge ==
    (DetailsFetched /\ mDetails.draft /\ mDetails.mergeable = "true") =>
        /\ \A i \in 1..Len(mCalls) :
              mCalls[i].op = "merge" =>
                 \E j \in 1..(i - 1) : mCalls[j] = Call("markReady", TRUE)
        /\ HasCallOk(mCalls, "markReady", FALSE) =>
              (~HasCall(mCalls, "merge") /\ mPc = "failed")

C5_Witness ==
    /\ mDetails.draft
    /\ HasCallOk(mCalls, "markReady", TRUE)
    /\ HasCallOk(mCalls, "merge", TRUE)
    /\ mMerged = "true"

\* C6: when the fetched details do not report mergeable = true (false or
\* null), mergeBranch has failed with "Not Mergeable", status 400, the route
\* answers 400, and no mark-ready, merge or delete-branch call is issued.
C6_NotMergeableStops ==
    (DetailsFetched /\ mDetails.mergeable # "true") =>
        /\ mPc = "failed"
        /\ mErr = [status |-> 400, response |-> 0, type |-> "Not Mergeable"]
        /\ mHttp = [status |-> 400, error |-> "Not Mergeable"]
        /\ ~HasCall(mCalls, "markReady")
        /\ ~HasCall(mCalls, "merge")
        /\ ~HasCall(mCalls, "deleteBranch")
        /\ mergedPulls = {}
        /\ branchExists

C6_Witness ==
    /\ DetailsFetched
    /\ mDetails.mergeable = "null"
    /\ mDetails.draft
    /\ mPc = "failed"

\* C7: a mark-ready call is issued exactly for a pull request whose details
\* report mergeable = true and draft = true; a mergeable pull request that
\* is not a draft goes to the merge call with no mark-ready call.
C7_MarkReadyIffDraft ==
    /\ HasCall(mCalls, "markReady") =>
          (DetailsFetched /\ mDetails.mergeable = "true" /\ mDetails.draft)
    /\ (DetailsFetched /\ mDetails.mergeable = "true" /\ mDetails.draft) =>
          (mPc = "markReady" \/ HasCall(mCalls, "markReady"))
    /\ (DetailsFetched /\ mDetails.mergeable = "true" /\ ~mDetails.draft) =>
          /\ ~HasCall(mCalls, "markReady")
          /\ mPc = "merge" \/ HasCall(mCalls, "merge")

C7_Witness ==
    /\ DetailsFetched
    /\ ~mDetails.draft
    /\ HasCallOk(mCalls, "merge", TRUE)
    /\ ~HasCall(mCalls, "markReady")
    /\ mPc = "done"

\* C8: when the host has no open pull request of head = branch, base = main
\* and the list request has been answered, mergeBranch has failed with
\* status 404, the route answers 404, and the list request is the only
\* request issued.
C8_NoPullNotFound ==
    (/\ HasCallOk(mCalls, "listPulls", TRUE)
     /\ mergedPulls = {}
     /\ \A p \in pulls : ~(p.head = Branch /\ p.base = Main)) =>
        /\ mPc = "failed"
        /\ mErr.status = 404
        /\ mHttp = [status |-> 404, error |-> "Not Found"]
        /\ mCalls = <<Call("listPulls", TRUE)>>

C8_Witness ==
    /\ HasCallOk(mCalls, "listPulls", TRUE)
    /\ mList = <<>>
    /\ pulls # {}
    /\ mPc = "failed"

\* C9: a delete-branch call is issued only after a merge call whose
\* response says merged = true; with a response that is not merged,
\* mergeBranch fails with "Merge Failed", status 400, and the branch stays.
C9_DeleteOnlyAfterMerged ==
    /\ \A i \in 1..Len(mCalls) :
          mCalls[i].op = "deleteBranch" =>
             /\ mMerged = "true"
             /\ mDetails.number \in mergedPulls
             /\ \E j \in 1..(i - 1) : mCalls[j] = Call("merge", TRUE)
    /\ mMerged = "false" =>
          /\ mPc = "failed"
          /\ mErr = [status |-> 400, response |-> 0, type |-> "Merge Failed"]
          /\ mHttp = [status |-> 400, error |-> "Merge Failed"]
          /\ ~HasCall(mCalls, "deleteBranch")
          /\ branchExists
    /\ ~branchExists => HasCallOk(mCalls, "deleteBranch", TRUE)

C9_Witness ==
    /\ mMerged = "true"
    /\ HasCallOk(mCalls, "deleteBranch", TRUE)
    /\ ~branchExists

GHasCall(c, op) == \E i \in 1..Len(gCalls[c]) : gCalls[c][i].op = op
GListedEmpty(c) ==
    /\ Len(gCalls[c]) >= 1
    /\ gCalls[c][1] = GCall("listPulls", TRUE, NoParams)
    /\ gList[c] = <<>>
GCreateCalls(c) == {i \in 1..Len(gCalls[c]) : gCalls[c][i].op = "createPull"}

\* C2: with an empty pull request list and a compare that reports
\* ahead_by = 0, getChangedFiles has returned the "no changes" signal and
\* has issued the list and compare requests and nothing else (no creation
\* request, no later request); with ahead_by > 0 it proceeds to creation.
C2_NoChangesNoCreation ==
    \A c \in Callers :
        /\ (GListedEmpty(c) /\ gAhead[c] = 0) =>
              /\ gPc[c] = "done"
              /\ gRes[c].kind = "compare"
              /\ gRes[c].status = 200
              /\ gCalls[c] = <<GCall("listPulls", TRUE, NoParams),
                               GCall("compare", TRUE, NoParams)>>
              /\ gFetch[c] = <<>>
        /\ (GListedEmpty(c) /\ gAhead[c] > 0) =>
              /\ gRes[c].kind # "compare"
              /\ gPc[c] = "create" \/ GHasCall(c, "createPull")
        /\ gRes[c].kind = "compare" => (GListedEmpty(c) /\ gAhead[c] = 0)

C2_Witness ==
    \E c \in Callers :
        /\ GListedEmpty(c)
        /\ gAhead[c] = 0
        /\ aheadBy = 0
        /\ gRes[c].kind = "compare"

\* C3: with an empty pull request list and ahead_by > 0, once the creation
\* request is out it is the only one, it carries draft = true, head = the
\* branch, base = main, and the pullNumber getChangedFiles returns is the
\* number of the pull request that request created.
C3_CreatesOneDraft ==
    \A c \in Callers :
        /\ Cardinality(GCreateCalls(c)) <= 1
        /\ GCreateCalls(c) # {} => (GListedEmpty(c) /\ gAhead[c] > 0)
        /\ (GListedEmpty(c) /\ gAhead[c] > 0 /\ gPc[c] # "create") =>
              \E i \in GCreateCalls(c) :
                 /\ gCalls[c][i].draft = TRUE
                 /\ gCalls[c][i].head = Branch
                 /\ gCalls[c][i].base = Main
                 /\ gRes[c].kind = "data" =>
                       /\ gCalls[c][i].ok
                       /\ gRes[c].pullNumber = gCalls[c][i].num
                       /\ \E p \in pulls :
                             /\ p.number = gRes[c].pullNumber
                             /\ p.head = Branch
                             /\ p.base = Main
                             /\ p.draft

C3_Witness ==
    \E c \in Callers :
        /\ GListedEmpty(c)
        /\ gAhead[c] > 0
        /\ gRes[c].kind = "data"
        /\ gRes[c].pullNumber > MaxPulls

\* C4: with a non-empty pull request list, the pull request number
\* getChangedFiles uses (for the file list, the comments and the result) is
\* the number of the first element of the list, and neither a compare nor a
\* creation request is issued.
C4_FirstListedPull ==
    \A c \in Callers :
        (Len(gList[c]) > 0) =>
            /\ gPull[c] = gList[c][1].number
            /\ ~GHasCall(c, "compare")
            /\ ~GHasCall(c, "createPull")
            /\ \A i \in 1..Len(gCalls[c]) :
                  gCalls[c][i].op \in {"listFiles", "listComments"} =>
                     gCalls[c][i].num = gList[c][1].number
            /\ gRes[c].kind = "data" => gRes[c].pullNumber = gList[c][1].number

C4_Witness ==
    \E c \in Callers :
        /\ Len(gList[c]) = 2
        /\ gList[c][1].number < gList[c][2].number
        /\ gRes[c].kind = "data"
        /\ gRes[c].pullNumber = gList[c][1].number


Range(seq) == {seq[i] : i \in 1..Len(seq)}

\* the first index of seq whose element satisfies the test holds, as a set
\* of at most one index
FirstNamed(labels, name) ==
    {k \in 1..Len(labels) :
        /\ labels[k].name = name
        /\ \A j \in 1..Len(labels) : labels[j].name = name => k <= j}
FirstOfLang(translations, lang) ==
    {i \in 1..Len(translations) :
        /\ translations[i].lang = lang
        /\ \A j \in 1..Len(translations) :
              translations[j].lang = lang => i <= j}

\* what the claim asks of a reported conflict q: the reference version has
\* a label of that name with an entry of that language and value, the branch
\* version has a label of that name (the first of that name) with an entry
\* of that language (the first of that language) of that value, the values
\* differ and the reference value is not empty
ConflictExpected(q) ==
    /\ \E k \in 1..Len(scanSync) :
          /\ scanSync[k].name = q.label
          /\ \E i \in 1..Len(scanSync[k].translations) :
                scanSync[k].translations[i] =
                    [lang |-> q.language, term |-> q.syncValue]
    /\ \E m \in FirstNamed(scanBranch, q.label) :
          \E j \in FirstOfLang(scanBranch[m].translations, q.language) :
             scanBranch[m].translations[j].term = q.branchValue
    /\ q.syncValue # q.branchValue
    /\ q.syncValue # ""

\* C11: for a compared file, a conflict (label, language, syncValue,
\* branchValue) is reported if and only if the label exists by name in both
\* versions, an entry of that language exists under it on both sides (first
\* match on the branch side), the two values differ and the reference value
\* is not the empty string; no reported conflict has an empty reference
\* value, whatever the branch value.
C11_ConflictIff ==
    scanOut.done =>
        /\ \A q \in [label : Names, language : Langs,
                     syncValue : ScanSyncTerms,
                     branchValue : ScanBranchTerms] :
              (q \in Range(scanOut.conflicts)) <=> ConflictExpected(q)
        /\ \A q \in Range(scanOut.conflicts) :
              /\ q.syncValue # ""
              /\ q.label \in Names
              /\ q.language \in Langs
              /\ q.syncValue \in ScanSyncTerms
              /\ q.branchValue \in ScanBranchTerms

C11_Witness ==
    /\ scanOut.done
    /\ \E k \in 1..Len(scanSync) :
          \E i \in 1..Len(scanSync[k].translations) :
             /\ scanSync[k].translations[i].term = "p"
             /\ scanOut.conflicts =
                   <<[label |-> scanSync[k].name,
                      language |-> scanSync[k].translations[i].lang,
                      syncValue |-> "p", branchValue |-> "q"]>>

\* the filenames both sides changed
BothSides == Range(prFiles) \cap Range(syncFiles)
\* the branch...main compare has been answered and the common files taken
CommonTaken == cPc \in {"fetch", "done"}

\* C12: getConflicts requests and compares content only for filenames that
\* are both in the branch-side list (pull request files or main...branch)
\* and in the reference-side list (branch...main); when no filename is in
\* both it returns an empty result and has requested no content.
C12_OnlyCommonFiles ==
    /\ \A r \in cReads : r[1] \in BothSides
    /\ CommonTaken => Range(cCommon) = BothSides
    /\ \A i \in 1..Len(cOut) :
          cOut[i] # NoEntry => cOut[i].filename \in BothSides
    /\ (CommonTaken /\ BothSides = {}) =>
          /\ cPc = "done"
          /\ cRes.kind = "list"
          /\ cRes.list = <<>>
          /\ cReads = {}
    /\ (cPc = "done" /\ BothSides # {}) =>
          \A f \in BothSides : <<f, Main>> \in cReads

C12_Witness ==
    /\ cPc = "done"
    /\ prFiles # <<>>
    /\ syncFiles # <<>>
    /\ BothSides = {}
    /\ cRes.list = <<>>

\* C13, as stated: no element of the list getConflicts returns has an empty
\* conflicts list.
C13_OnlyFilesWithConflicts ==
    cPc = "done" =>
        \A i \in 1..Len(cRes.list) : Len(cRes.list[i].conflicts) > 0

\* the two texts of common file i parse
BothParse(i) ==
    blobs[cCommon[i]].main.parses /\ blobs[cCommon[i]].branch.parses

\* C14: a failure to fetch or parse a version of one common file does not
\* make getConflicts fail: the file's element is the placeholder entry that
\* names it, every other common file is compared, and all are returned.
C14_FileFailureDegrades ==
    /\ cRes.kind = "error" => (cReads = {} /\ cPc = "failed")
    /\ cReads # {} => cPc \in {"fetch", "done"}
    /\ \A i \in 1..Len(cCommon) :
          cFetch[i] = "done" =>
             /\ cOut[i].filename = cCommon[i]
             /\ \/ cOut[i] = Placeholder(cCommon[i])
                \/ /\ BothParse(i)
                   /\ cOut[i].conflicts =
                         FileConflicts(blobs[cCommon[i]].main.labels,
                                       blobs[cCommon[i]].branch.labels)
             /\ ~BothParse(i) => cOut[i] = Placeholder(cCommon[i])
    /\ (/\ cPc = "done"
        /\ \E i \in 1..Len(cCommon) : cOut[i] = Placeholder(cCommon[i])) =>
          /\ cRes.kind = "list"
          /\ cRes.status = 200
          /\ cRes.list = cOut
          /\ \A i \in 1..Len(cCommon) : cFetch[i] = "done"

C14_Witness ==
    /\ cPc = "done"
    /\ Len(cCommon) = 2
    /\ cOut[1] = Placeholder(cCommon[1])
    /\ BothParse(1)
    /\ cOut[2] # Placeholder(cCommon[2])
    /\ Len(cOut[2].conflicts) = 1
    /\ cOrder = <<1, 2>>
    /\ cRes.list = cOut


\* ------------------------------- properties of the per-file fetches
\* C15: in getChangedFiles and getDetailedDiff, when the content retrieval
\* of one changed file fails, the call fails with an error that names that
\* file and returns no per-file result, whatever was fetched before; a call
\* that returns data has fetched every file.
C15_FileFailureAborts ==
    /\ \A c \in Callers :
          /\ \A i \in 1..Len(gFetch[c]) :
                gFetch[c][i] = "failed" =>
                   /\ gPc[c] = "failed"
                   /\ gRes[c].kind = "error"
                   /\ gRes[c].err = FileError
                   /\ gRes[c].file = gFiles[c][i]
                   /\ gRes[c].pullNumber = 0
          /\ gRes[c].kind = "data" =>
                \A i \in 1..Len(gFetch[c]) : gFetch[c][i] = "done"
    /\ \A i \in 1..Len(dFetch) :
          dFetch[i] = "failed" =>
             /\ dPc = "failed"
             /\ dRes.kind = "error"
             /\ dRes.file = dFiles[i]
             /\ dRes.list = <<>>
             /\ dRes.status = 500
    /\ dRes.kind = "list" =>
          \A i \in 1..Len(dFetch) : dFetch[i] = "done"

C15_Witness ==
    \E c \in Callers :
        /\ Len(gFiles[c]) = 2
        /\ gFetch[c][1] = "done"
        /\ gFetch[c][2] = "failed"
        /\ gOut[c][1].filename = gFiles[c][1]
        /\ gRes[c].kind = "error"
        /\ gRes[c].file = gFiles[c][2]

\* C16: whatever the order in which the per-file fetches complete, the
\* i-th element of the collection getChangedFiles, getDetailedDiff and
\* getConflicts produce is the result for the i-th file of the list the
\* fetches were started for.
C16_OutputInInputOrder ==
    /\ \A c \in Callers :
          /\ Len(gOut[c]) = Len(gFiles[c])
          /\ \A i \in 1..Len(gFiles[c]) :
                gFetch[c][i] = "done" =>
                   gOut[c][i] =
                      [filename |-> gFiles[c][i],
                       before |-> Content(gFiles[c][i], Main),
                       after |-> Content(gFiles[c][i], Branch)]
    /\ dPc = "done" =>
          /\ Len(dRes.list) = Len(dFiles)
          /\ \A i \in 1..Len(dFiles) :
                dRes.list[i] =
                   [filename |-> dFiles[i],
                    content |-> blobs[dFiles[i]].branch.labels]
    /\ (cPc = "done" /\ cRes.list # <<>>) =>
          /\ Len(cRes.list) = Len(cCommon)
          /\ \A i \in 1..Len(cCommon) :
                cRes.list[i].filename = cCommon[i]

C16_Witness ==
    /\ cPc = "done"
    /\ Len(cCommon) = 2
    /\ cOrder = <<2, 1>>
    /\ Len(cRes.list) = 2
    /\ cRes.list[1].filename = cCommon[1]
    /\ cRes.list[2].filename = cCommon[2]
    /\ cRes.list[1].conflicts # cRes.list[2].conflicts


\* ------------------------------------ properties of the merge step
\* the document the merge step started from and the one it produced
Before == Parse(uRead)
After == Parse(uContent)
Merged == uPc = "merged"

\* the value of a language under label k: the term of its first entry
ValueOf(doc, k, lang) ==
    {doc[k].translations[i].term :
        i \in FirstOfLang(doc[k].translations, lang)}
HasLang(label, lang) ==
    \E i \in 1..Len(label.translations) : label.translations[i].lang = lang
NamedIn(value, name, lang) ==
    name \in DOMAIN value /\ lang \in DOMAIN value[name]

\* the label names in order and, per label, the language codes in order
Shape(doc) ==
    [k \in 1..Len(doc) |->
        [name |-> doc[k].name,
         langs |-> [i \in 1..Len(doc[k].translations) |->
                       doc[k].translations[i].lang]]]

\* C17: the merge step with an empty translations map leaves the document
\* as it was: every label and every (language, term) entry unchanged.
C17_EmptyMapIdentity ==
    (Merged /\ DOMAIN uT = {}) => After = Before

C17_Witness ==
    /\ Merged
    /\ DOMAIN uT = {}
    /\ Len(Before) = 2
    /\ \A k \in 1..Len(Before) : Len(Before[k].translations) > 0
    /\ After = Before

\* every label the map names is in the document, with every language the
\* map names for it
NamesOnlyExisting(doc, value) ==
    \A n \in DOMAIN value :
        /\ \E k \in 1..Len(doc) : doc[k].name = n
        /\ \A k \in 1..Len(doc) :
              doc[k].name = n =>
                 \A l \in DOMAIN value[n] : HasLang(doc[k], l)

C19_ShapeKept ==
    Merged => Shape(After) = Shape(Before)

C19_Witness ==
    /\ Merged
    /\ Len(Before) = 1
    /\ \E n \in DOMAIN uT : \A k \in 1..Len(Before) : Before[k].name # n
    /\ \E l \in Langs :
          /\ NamedIn(uT, Before[1].name, l)
          /\ ~HasLang(Before[1], l)
    /\ Len(Before[1].translations) > 0
    /\ After = Before

\* C20, as stated: the content updateFileWithTranslations commits holds the
\* comments of the text it read, and every (label, language) the map does
\* not name with the value it had.
C20_CommittedKeepsRest ==
    HasCallOk(uCalls, "putContent", TRUE) =>
        /\ uContent.comments = uRead.comments
        /\ Shape(After) = Shape(Before)
        /\ \A k \in 1..Len(Before) :
              \A l \in Langs :
                 (HasLang(Before[k], l) /\ ~NamedIn(uT, Before[k].name, l)) =>
                    ValueOf(After, k, l) = ValueOf(Before, k, l)

\* ------------------------------------ properties of checkFileApproval
\* the comparison token of a label line: "approved-" and the name, lowercased
TokenOf(line) == <<"approved-">> \o ToLowerCase(line.name)

\* some review comment on the checked file, written by a listed reviewer,
\* carries the token of the line in its lowercased trimmed body
HasApproval(line) ==
    \E k \in 1..Len(prComments) :
        /\ prComments[k].path = CheckedFile
        /\ prComments[k].login \in Range(aRes.eligible_reviewers)
        /\ StrIncludes(ToLowerCase(Trim(prComments[k].body)), TokenOf(line))

LineNumbers(labels) == {labels[j].lineNumber : j \in 1..Len(labels)}

\* C21: once checkFileApproval has returned, a label line of the file is in
\* approvedLabels if and only if some review comment has the path of the
\* checked file, an author of the reviewer allow-list and a lowercased
\* trimmed body that contains "approved-" + the lowercased label name;
\* every other label line is in unapprovedLabels, and no line is in both
C21_ApprovedIffComment ==
    aPc = "done" =>
        \A i \in 1..Len(fileLines) :
            /\ i \in LineNumbers(aRes.approvedLabels)
                  <=> (fileLines[i].label /\ HasApproval(fileLines[i]))
            /\ i \in LineNumbers(aRes.unapprovedLabels)
                  <=> (fileLines[i].label /\ ~HasApproval(fileLines[i]))

\* a run that returned with one label approved by a reviewer's comment and
\* another one left unapproved
C21_Witness ==
    /\ aPc = "done"
    /\ Len(aRes.approvedLabels) = 1
    /\ Len(aRes.unapprovedLabels) = 1
    /\ Len(prComments) > 0

LabelLines == {i \in 1..Len(fileLines) : fileLines[i].label}

\* C22: once checkFileApproval has returned, approved is true if and only if
\* unapprovedLabels is empty and approvedLabels is not; a file without label
\* lines yields approved = false and two empty lists; one unapproved label
\* is enough for approved = false
C22_ApprovedOverall ==
    aPc = "done" =>
        /\ aRes.approved <=> (aRes.unapprovedLabels = <<>>
                              /\ aRes.approvedLabels # <<>>)
        /\ LabelLines = {} =>
              /\ ~aRes.approved
              /\ aRes.approvedLabels = <<>>
              /\ aRes.unapprovedLabels = <<>>
        /\ (\E i \in LabelLines : ~HasApproval(fileLines[i])) => ~aRes.approved

\* a run that reported a file of two labels approved
C22_Witness ==
    /\ aPc = "done"
    /\ aRes.approved
    /\ Cardinality(LabelLines) = 2
    /\ Len(aRes.approvedLabels) = 2

\* ------------------------------------------ properties of getReviewers
KeyedEntries ==
    {i \in 1..Len(manifest.entries) : Len(manifest.entries[i].keys) > 0}

MalformedManifest ==
    \/ ~manifest.exists
    \/ ~manifest.parses
    \/ ~manifest.isArray
    \/ KeyedEntries = {}

\* C23 as stated: getReviewers returns only on an array of single-key
\* objects
C23_SingleKeyObjects ==
    rPc = "done" =>
        /\ ~MalformedManifest
        /\ \A i \in 1..Len(manifest.entries) :
              /\ ~manifest.entries[i].null
              /\ Len(manifest.entries[i].keys) = 1

\* C23: getReviewers returns only when the manifest exists and parses as an
\* array in which some object has a key; the list it returns is not empty
\* and holds the first key of every object that has keys, whatever the
\* number of its keys; on a manifest that is absent, unparsable, not an
\* array or without any username it fails
C23_FirstKeys ==
    /\ rPc = "done" =>
          /\ ~MalformedManifest
          /\ rRes.usernames # <<>>
          /\ Len(rRes.usernames) = Cardinality(KeyedEntries)
          /\ Range(rRes.usernames)
                = {manifest.entries[i].keys[1] : i \in KeyedEntries}
    /\ (rPc # "get" /\ MalformedManifest) => rPc = "failed"

\* a list returned from a manifest one object of which has two keys
C23_Witness ==
    /\ rPc = "done"
    /\ \E i \in 1..Len(manifest.entries) : Len(manifest.entries[i].keys) = 2

\* ------------------------------------------- properties of the routes
\* C24: GET /reviewers answers 404 when getReviewers failed on a missing
\* manifest and 400 when it failed on a malformed one (not an array, or no
\* usernames)
C24_ManifestErrorsMapped ==
    rPc = "failed" =>
        /\ rRes.error.type = NotFoundMessage => rRes.status = 404
        /\ rRes.error.type \in {NotArrayMessage, NoReviewersMessage}
              => rRes.status = 400

\* C25: an authorised request that lacks a required query parameter or body
\* field is answered 400, and no request was sent to the host for it
C25_MissingFieldRejectedFirst ==
    (vStatus # 0 /\ vReq.token /\ ~vReq.fields) =>
        /\ vStatus = 400
        /\ vRemote = 0

\* ---------- properties of updateFileWithTranslations, current service
LastCall(calls) == calls[Len(calls)]

\* C26: when the host rejects the write with 409 or 404, PUT /update answers
\* with that status
C26_HostStatusAnswered ==
    (/\ uPc = "failed"
     /\ uCalls # <<>>
     /\ LastCall(uCalls) = Call("putContent", FALSE)
     /\ uHost \in {404, 409}) => uStatus = uHost

CallsOf(calls, op) == {i \in 1..Len(calls) : calls[i].op = op}

\* C30: a call reads the contents once (never twice, and once as soon as it
\* has got past the read), writes at most once, and the sha it sends with
\* the write is the sha of the text it read, parsed and merged
C30_OneReadItsSha ==
    /\ Cardinality(CallsOf(uCalls, "getContent")) <= 1
    /\ Cardinality(CallsOf(uCalls, "putContent")) <= 1
    /\ uPc \in {"put", "done", "failed"}
          => Cardinality(CallsOf(uCalls, "getContent")) = 1
    /\ CallsOf(uCalls, "putContent") # {} =>
          /\ uSha = Sha(uRead)
          /\ uContent = Stringify(ApplyTranslations(Parse(uRead), uT))

\* a write the host refused because another client had committed to the
\* file after the read
C30_Witness ==
    /\ uPc = "failed"
    /\ CallsOf(uCalls, "putContent") # {}
    /\ otherWrites > 0
    /\ uSha # Sha(file)
    /\ uHost = 409

\* ------------------------------- properties of two getChangedFiles calls
\* C27: two getChangedFiles calls on a branch without a pull request invoke
\* the creation endpoint at most once between them
C27_OneCreationCall ==
    Cardinality(GCreateCalls("c1")) + Cardinality(GCreateCalls("c2")) <= 1

\* ------------------------------- properties of the read-style operations
\* the remote repository: pull requests, branch, files, manifest, comments
hostVars ==
    <<pulls, mergedPulls, branchExists, aheadBy, prFiles, file, syncFiles,
      blobs, manifest, prComments, fileLines>>

\* a step of getChangedFiles that creates one draft pull request of the
\* working branch and changes nothing else on the host
CreatesPull ==
    /\ \E c \in Callers : gPc[c] = "create" /\ gPc'[c] = "files"
    /\ \E p \in pulls' \ pulls :
          /\ pulls' = pulls \cup {p}
          /\ p.head = Branch
          /\ p.draft
    /\ UNCHANGED <<mergedPulls, branchExists, aheadBy, prFiles, file,
                   syncFiles, blobs, manifest, prComments, fileLines>>

\* C28: no step of getDetailedDiff, getDiff, getConflicts, getReviewers or
\* checkFileApproval changes the remote repository; the one step of a
\* read-style operation that does is the pull request creation of
\* getChangedFiles
C28_ReadsLeaveHost ==
    [][UNCHANGED hostVars \/ CreatesPull]_vars

\* getConflicts has read both versions of a file and answered
C28_Witness ==
    /\ cPc = "done"
    /\ cReads # {}
    /\ cRes.status = 200

\* --------------------------------- properties of a failed mergeBranch
FailedUnmerged == mPc = "failed" /\ DetailsFetched /\ mMerged # "true"

\* C29 as stated: a failed mergeBranch leaves the pull request with the
\* draft status it had, and the branch in place
C29_FailureLeavesPull ==
    FailedUnmerged =>
        /\ branchExists
        /\ \E p \in pulls :
              p.number = mDetails.number /\ p.draft = mDetails.draft

\* C29: as long as no merge is confirmed the branch is in place; after a
\* failure without a confirmed merge the pull request is still open, and its
\* draft status is the one it had unless the mark-ready request had
\* succeeded, in which case it is left ready for review
C29_FailureKeepsPullOpen ==
    /\ mMerged # "true" => branchExists /\ mergedPulls = {}
    /\ FailedUnmerged =>
          \E p \in pulls :
              /\ p.number = mDetails.number
              /\ p.draft = (mDetails.draft
                            /\ ~HasCallOk(mCalls, "markReady", TRUE))

\* the merge of a draft pull request failed after it was marked ready
C29_Witness ==
    /\ FailedUnmerged
    /\ mDetails.draft
    /\ HasCallOk(mCalls, "markReady", TRUE)
    /\ HasCall(mCalls, "merge")
    /\ branchExists

====
